---- MODULE Spec2Model ----
(***************************************************************************)
(* Payslip comparison pipeline: normalisation, diff engine, facts          *)
(* generator, narration and the pipeline orchestrator.                     *)
(*                                                                         *)
(* Numbers are integers (amounts in whole currency units).  A JavaScript   *)
(* value that may be undefined/null is a sequence of length 0 (absent) or  *)
(* 1 (present).  A Map is the sequence of its entries in insertion order,  *)
(* with pairwise distinct codes.                                           *)
(***************************************************************************)
EXTENDS Integers, Sequences, FiniteSets, TLC

VARIABLES
    call,         \* the pipeline invocation: arguments, position, locals, result
    requests,     \* the generateText requests sent to the narration service
    previous,     \* comparePayslips: first argument (NormalizedPayslip)
    current,      \* comparePayslips: second argument (NormalizedPayslip)
    comparison,   \* comparePayslips: the returned ComparisonResult, if returned
    impArgs,      \* determineImportance: its arguments
    impResult,    \* determineImportance: the returned level, if returned
    icu,          \* the locale data the runtime was built with
    factsResult,  \* generateFacts: the returned FactsResult, if returned
    rawPayslip,   \* normalizePayslip: its argument (PayslipHeader)
    normalizedPayslip, \* normalizePayslip: the returned NormalizedPayslip, if any
    payslipList,  \* getPayslipPairForComparison: its argument (PayslipHeader[])
    pairResult,   \* getPayslipPairForComparison: what it returned, once it has
    objects,      \* the NormalizedPayslip objects on the heap, by name
    callLog,      \* the comparePayslips calls made so far, with their results
    calls,        \* the pipeline invocations in flight at the same time
    factsObject,  \* the FactsResult object handed to the accessors and the digest
    accessLog     \* the accessor and digest calls made so far, with their results

vars ==
    <<call, requests, previous, current, comparison, impArgs, impResult, icu,
      factsResult, rawPayslip, normalizedPayslip, payslipList, pairResult, objects,
      callLog, calls, factsObject, accessLog>>

pipelineVars == <<call, requests, calls>>
diffVars == <<previous, current, comparison, factsResult>>
importanceVars == <<impArgs, impResult>>
normalizeVars == <<rawPayslip, normalizedPayslip>>
pairingVars == <<payslipList, pairResult>>
repeatVars == <<objects, callLog>>
accessVars == <<factsObject, accessLog>>

None == <<>>
Some(x) == <<x>>
IsSome(o) == Len(o) = 1
Abs(x) == IF x < 0 THEN -x ELSE x

RECURSIVE SumSeq(_)
SumSeq(s) == IF s = <<>> THEN 0 ELSE Head(s) + SumSeq(Tail(s))

(***************************************************************************)
(* Map<string, NormalizedLine>                                             *)
(***************************************************************************)
MapHas(m, code) == \E i \in 1..Len(m) : m[i].code = code
MapGet(m, code) == m[CHOOSE i \in 1..Len(m) : m[i].code = code]
MapSet(m, line) ==
    IF MapHas(m, line.code)
    THEN [i \in 1..Len(m) |-> IF m[i].code = line.code THEN line ELSE m[i]]
    ELSE Append(m, line)
MapKeys(m) == [i \in 1..Len(m) |-> m[i].code]
\* oldLine?.amount ?? 0
AmountOrZero(m, code) == IF MapHas(m, code) THEN MapGet(m, code).amount ELSE 0

(***************************************************************************)
(* schemas/change-record.ts                                                *)
(***************************************************************************)
Directions == {"increase", "decrease", "unchanged", "added", "removed"}
Categories == {"earning", "deduction", "fringe_benefit", "company_contribution",
               "aggregate", "key_amount"}
ImportanceLevels == {"high", "medium", "low"}

getChangeDirection(oldValue, newValue, isAdded, isRemoved) ==
    IF isAdded THEN "added"
    ELSE IF isRemoved THEN "removed"
    ELSE IF newValue > oldValue THEN "increase"
    ELSE IF newValue < oldValue THEN "decrease"
    ELSE "unchanged"

\* Mutant: null is decided on the new value.
calculatePercentChangeOnNew(oldValue, newValue) ==
    IF newValue = 0 THEN None
    ELSE Some([num |-> (newValue - oldValue) * 100, den |-> Abs(oldValue)])

\* The rational ((newValue - oldValue) / |oldValue|) * 100 is kept as the
\* pair numerator/denominator; null is the absent value.
calculatePercentChange(oldValue, newValue) ==
    IF oldValue = 0 THEN None
    ELSE Some([num |-> (newValue - oldValue) * 100, den |-> Abs(oldValue)])

SmallChangeLimit == 100

\* Mutant: the added/removed rule is tried before the code rules.
determineImportanceAddedFirst(category, code, delta, direction) ==
    IF direction = "added" \/ direction = "removed" THEN "medium"
    ELSE IF code = "netPay" THEN "high"
    ELSE IF code = "PAYE" \/ code = "paye" THEN "high"
    ELSE IF code = "SALARY" \/ code = "basicSalary" THEN "high"
    ELSE IF category = "aggregate" THEN "medium"
    ELSE IF Abs(delta) < SmallChangeLimit THEN "low"
    ELSE "medium"

determineImportance(category, code, delta, direction) ==
    IF code = "netPay" THEN "high"
    ELSE IF code = "PAYE" \/ code = "paye" THEN "high"
    ELSE IF code = "SALARY" \/ code = "basicSalary" THEN "high"
    ELSE IF direction = "added" \/ direction = "removed" THEN "medium"
    ELSE IF category = "aggregate" THEN "medium"
    ELSE IF Abs(delta) < SmallChangeLimit THEN "low"
    ELSE "medium"

(***************************************************************************)
(* utils/payslip-utils.ts                                                  *)
(*                                                                         *)
(* The functions take whatever value they are handed at run time.  A       *)
(* payslip that holds an ill-typed field makes the first stage that         *)
(* computes with that field raise a TypeError; the field `defect` of a     *)
(* payslip names that stage ("none" for a well-typed payslip) and travels  *)
(* with the payslip through normalisation.                                 *)
(***************************************************************************)
\* Mutant: a SALARY line of any amount makes a payslip primary.
isPrimaryPayslipAnyAmount(payslip) ==
    \E i \in 1..Len(payslip.earnings) : payslip.earnings[i].lineCode = "SALARY"

\* payslip.earnings.find(...): the first SALARY line decides
isPrimaryPayslip(payslip) ==
    LET hits == {i \in 1..Len(payslip.earnings) : payslip.earnings[i].lineCode = "SALARY"}
    IN  /\ hits # {}
        /\ payslip.earnings[CHOOSE i \in hits : \A k \in hits : i <= k].total > 0

filterPrimaryPayslips(payslips) == SelectSeq(payslips, isPrimaryPayslip)

\* Mutant: the comparator looks at the month only.
PeriodOrderMonthOnly(a, b) == a.calendarMonth - b.calendarMonth

\* The comparator handed to sort in sortPayslipsByPeriod
PeriodOrder(a, b) ==
    IF a.calendarYear # b.calendarYear THEN a.calendarYear - b.calendarYear
    ELSE a.calendarMonth - b.calendarMonth

RECURSIVE InsertPayslip(_, _)
InsertPayslip(sorted, x) ==
    IF sorted = <<>> THEN <<x>>
    ELSE IF PeriodOrder(Head(sorted), x) > 0 THEN <<x>> \o sorted
    ELSE <<Head(sorted)>> \o InsertPayslip(Tail(sorted), x)

RECURSIVE sortPayslipsByPeriod(_)
sortPayslipsByPeriod(payslips) ==
    IF payslips = <<>> THEN <<>>
    ELSE InsertPayslip(sortPayslipsByPeriod(SubSeq(payslips, 1, Len(payslips) - 1)),
                       payslips[Len(payslips)])

normalizeEarningLine(line) ==
    [code |-> line.lineCode, description |-> line.lineDescription,
     amount |-> line.total, taxableAmount |-> line.taxableAmount,
     taxDeductibleAmount |-> 0]

normalizeDeductionLine(line) ==
    [code |-> line.lineCode, description |-> line.lineDescription,
     amount |-> line.total, taxableAmount |-> 0,
     taxDeductibleAmount |-> line.taxDeductibleAmount]

\* for (const e of lines) map.set(e.lineCode, normalize(e))
RECURSIVE BuildEarningMap(_, _)
BuildEarningMap(m, lines) ==
    IF lines = <<>> THEN m
    ELSE BuildEarningMap(MapSet(m, normalizeEarningLine(Head(lines))), Tail(lines))

RECURSIVE BuildDeductionMap(_, _)
BuildDeductionMap(m, lines) ==
    IF lines = <<>> THEN m
    ELSE BuildDeductionMap(MapSet(m, normalizeDeductionLine(Head(lines))), Tail(lines))

SumTotal(lines) == SumSeq([i \in 1..Len(lines) |-> lines[i].total])
SumTaxable(lines) == SumSeq([i \in 1..Len(lines) |-> lines[i].taxableAmount])
SumTaxDeductible(lines) == SumSeq([i \in 1..Len(lines) |-> lines[i].taxDeductibleAmount])

normalizePayslip(payslip) ==
    LET earnings == BuildEarningMap(<<>>, payslip.earnings)
        deductions == BuildDeductionMap(<<>>, payslip.deductions)
        fringeBenefits == BuildEarningMap(<<>>, payslip.fringeBenefits)
        companyContributions == BuildDeductionMap(<<>>, payslip.companyContributions)
    IN  [payslipID |-> payslip.payslipID,
         defect |-> payslip.defect,
         employeeCode |-> payslip.employeeCode,
         displayName |-> payslip.displayName,
         period |-> [year |-> payslip.calendarYear, month |-> payslip.calendarMonth],
         earnings |-> earnings,
         deductions |-> deductions,
         fringeBenefits |-> fringeBenefits,
         companyContributions |-> companyContributions,
         totals |-> [grossEarnings |-> SumTotal(payslip.earnings),
                     totalTaxableEarnings |-> SumTaxable(payslip.earnings),
                     totalDeductions |-> SumTotal(payslip.deductions),
                     totalTaxDeductible |-> SumTaxDeductible(payslip.deductions),
                     totalFringeBenefits |-> SumTotal(payslip.fringeBenefits),
                     totalCompanyContributions |-> SumTotal(payslip.companyContributions),
                     netPay |-> payslip.netPay],
         keyAmounts |-> [basicSalary |-> AmountOrZero(earnings, "SALARY"),
                         paye |-> AmountOrZero(deductions, "PAYE"),
                         uif |-> AmountOrZero(deductions, "UIF"),
                         overtime |-> AmountOrZero(earnings, "OTIME1_5")
                                      + AmountOrZero(earnings, "OTIME2_0"),
                         travel |-> AmountOrZero(earnings, "TRAVEL"),
                         commission |-> AmountOrZero(earnings, "COMM")]]

getNormalizedPrimaryPayslips(payslips) ==
    LET sorted == sortPayslipsByPeriod(filterPrimaryPayslips(payslips))
    IN  [i \in 1..Len(sorted) |-> normalizePayslip(sorted[i])]

\* [previous, current], or undefined
getPayslipPairForComparison(payslips) ==
    LET normalized == getNormalizedPrimaryPayslips(payslips)
    IN  IF Len(normalized) < 2 THEN None
        ELSE Some(<<normalized[Len(normalized) - 1], normalized[Len(normalized)]>>)

(***************************************************************************)
(* engine/diff-engine.ts                                                   *)
(***************************************************************************)
\* Mutant: only the codes of the previous map are visited.
AllCodesOldOnly(oldMap, newMap) == MapKeys(oldMap)

\* new Set([...oldMap.keys(), ...newMap.keys()]) in iteration order
AllCodes(oldMap, newMap) ==
    MapKeys(oldMap) \o SelectSeq(MapKeys(newMap), LAMBDA c : ~MapHas(oldMap, c))

\* The record pushed by compareLineMaps for one code
LineRecord(category, oldMap, newMap, code) ==
    LET hasOld == MapHas(oldMap, code)
        hasNew == MapHas(newMap, code)
        oldValue == AmountOrZero(oldMap, code)
        newValue == AmountOrZero(newMap, code)
        isAdded == ~hasOld /\ hasNew
        isRemoved == hasOld /\ ~hasNew
        delta == newValue - oldValue
        direction == getChangeDirection(oldValue, newValue, isAdded, isRemoved)
        label == IF hasNew THEN MapGet(newMap, code).description
                 ELSE IF hasOld THEN MapGet(oldMap, code).description
                 ELSE code
    IN  [id |-> category \o ":" \o code \o ":amount",
         label |-> label,
         category |-> category,
         code |-> code,
         oldValue |-> oldValue,
         newValue |-> newValue,
         delta |-> delta,
         percentChange |-> calculatePercentChange(oldValue, newValue),
         direction |-> direction,
         importance |-> determineImportance(category, code, delta, direction)]

\* Mutant: a code with equal amounts on both sides is not skipped.
LineChangeKeepsEqual(category, oldMap, newMap, code) ==
    LET oldValue == AmountOrZero(oldMap, code)
        newValue == AmountOrZero(newMap, code)
    IN  IF oldValue = 0 /\ newValue = 0 THEN <<>>
        ELSE << LineRecord(category, oldMap, newMap, code) >>

\* Mutant: every code with delta 0 is skipped, added and removed ones too.
LineChangeSkipsZeroDelta(category, oldMap, newMap, code) ==
    IF AmountOrZero(newMap, code) - AmountOrZero(oldMap, code) = 0 THEN <<>>
    ELSE << LineRecord(category, oldMap, newMap, code) >>

\* One iteration of the loop of compareLineMaps: no record or one record.
LineChange(category, oldMap, newMap, code) ==
    LET oldValue == AmountOrZero(oldMap, code)
        newValue == AmountOrZero(newMap, code)
        isAdded == ~MapHas(oldMap, code) /\ MapHas(newMap, code)
        isRemoved == MapHas(oldMap, code) /\ ~MapHas(newMap, code)
        delta == newValue - oldValue
    IN  IF oldValue = 0 /\ newValue = 0 /\ ~isAdded /\ ~isRemoved THEN <<>>
        ELSE IF delta = 0 /\ ~isAdded /\ ~isRemoved THEN <<>>
        ELSE << LineRecord(category, oldMap, newMap, code) >>

RECURSIVE CompareLineCodes(_, _, _, _)
CompareLineCodes(category, oldMap, newMap, codes) ==
    IF codes = <<>> THEN <<>>
    ELSE LineChange(category, oldMap, newMap, Head(codes))
         \o CompareLineCodes(category, oldMap, newMap, Tail(codes))

compareLineMaps(category, oldMap, newMap) ==
    CompareLineCodes(category, oldMap, newMap, AllCodes(oldMap, newMap))

AGGREGATE_FIELDS ==
    << [code |-> "grossEarnings", label |-> "Gross Earnings", block |-> "totals"],
       [code |-> "totalTaxableEarnings", label |-> "Taxable Earnings", block |-> "totals"],
       [code |-> "totalDeductions", label |-> "Total Deductions", block |-> "totals"],
       [code |-> "netPay", label |-> "Net Pay", block |-> "totals"],
       [code |-> "totalFringeBenefits", label |-> "Fringe Benefits", block |-> "totals"],
       [code |-> "totalCompanyContributions", label |-> "Company Contributions",
        block |-> "totals"] >>

KEY_AMOUNT_FIELDS ==
    << [code |-> "basicSalary", label |-> "Basic Salary", block |-> "keyAmounts"],
       [code |-> "paye", label |-> "PAYE Tax", block |-> "keyAmounts"],
       [code |-> "uif", label |-> "UIF", block |-> "keyAmounts"],
       [code |-> "overtime", label |-> "Overtime", block |-> "keyAmounts"],
       [code |-> "travel", label |-> "Travel Allowance", block |-> "keyAmounts"],
       [code |-> "commission", label |-> "Commission", block |-> "keyAmounts"] >>

\* field.getValue(ps)
FieldValue(field, ps) ==
    IF field.block = "totals" THEN ps.totals[field.code] ELSE ps.keyAmounts[field.code]

\* Mutant: a field with equal values on both sides is not skipped.
AggregateChangeKeepsEqual(category, field, prev, curr) ==
    LET oldValue == FieldValue(field, prev)
        newValue == FieldValue(field, curr)
        delta == newValue - oldValue
        direction == getChangeDirection(oldValue, newValue, FALSE, FALSE)
    IN  IF oldValue = 0 /\ newValue = 0 THEN <<>>
        ELSE << [id |-> category \o ":" \o field.code,
                 label |-> field.label,
                 category |-> category,
                 code |-> field.code,
                 oldValue |-> oldValue,
                 newValue |-> newValue,
                 delta |-> delta,
                 percentChange |-> calculatePercentChange(oldValue, newValue),
                 direction |-> direction,
                 importance |-> determineImportance(category, field.code, delta, direction)] >>

\* One iteration of the loop of compareAggregates.
AggregateChange(category, field, prev, curr) ==
    LET oldValue == FieldValue(field, prev)
        newValue == FieldValue(field, curr)
        delta == newValue - oldValue
        direction == getChangeDirection(oldValue, newValue, FALSE, FALSE)
    IN  IF delta = 0 THEN <<>>
        ELSE IF oldValue = 0 /\ newValue = 0 THEN <<>>
        ELSE << [id |-> category \o ":" \o field.code,
                 label |-> field.label,
                 category |-> category,
                 code |-> field.code,
                 oldValue |-> oldValue,
                 newValue |-> newValue,
                 delta |-> delta,
                 percentChange |-> calculatePercentChange(oldValue, newValue),
                 direction |-> direction,
                 importance |-> determineImportance(category, field.code, delta, direction)] >>

RECURSIVE compareAggregates(_, _, _, _)
compareAggregates(category, fields, prev, curr) ==
    IF fields = <<>> THEN <<>>
    ELSE AggregateChange(category, Head(fields), prev, curr)
         \o compareAggregates(category, Tail(fields), prev, curr)

\* Mutant: no key amount is held back.
skipCodesNone == {}

skipCodes == {"basicSalary", "paye", "uif", "travel", "commission"}

ImportanceOrder(importance) ==
    CASE importance = "high" -> 0
      [] importance = "medium" -> 1
      [] importance = "low" -> 2

\* Mutant: the magnitude is compared with its sign.
ChangeOrderSigned(a, b) ==
    LET importanceDiff == ImportanceOrder(a.importance) - ImportanceOrder(b.importance)
    IN  IF importanceDiff # 0 THEN importanceDiff ELSE b.delta - a.delta

\* The comparator handed to changes.sort
ChangeOrder(a, b) ==
    LET importanceDiff == ImportanceOrder(a.importance) - ImportanceOrder(b.importance)
    IN  IF importanceDiff # 0 THEN importanceDiff ELSE Abs(b.delta) - Abs(a.delta)

\* Array.prototype.sort is stable: x goes behind every element it does not
\* strictly precede.
RECURSIVE InsertChange(_, _)
InsertChange(sorted, x) ==
    IF sorted = <<>> THEN <<x>>
    ELSE IF ChangeOrder(Head(sorted), x) > 0 THEN <<x>> \o sorted
    ELSE <<Head(sorted)>> \o InsertChange(Tail(sorted), x)

RECURSIVE SortChanges(_)
SortChanges(s) ==
    IF s = <<>> THEN <<>>
    ELSE InsertChange(SortChanges(SubSeq(s, 1, Len(s) - 1)), s[Len(s)])

\* Mutant: increases and decreases are counted by the sign of the delta.
CountDirectionBySign(changes, direction) ==
    Cardinality({i \in 1..Len(changes) :
                    CASE direction = "increase" -> changes[i].delta > 0
                      [] direction = "decrease" -> changes[i].delta < 0
                      [] OTHER -> changes[i].direction = direction})

CountDirection(changes, direction) ==
    Cardinality({i \in 1..Len(changes) : changes[i].direction = direction})

\* The change records in the order comparePayslips pushes them, before the sort.
GeneratedChanges(prev, curr) ==
    compareLineMaps("earning", prev.earnings, curr.earnings)
    \o compareLineMaps("deduction", prev.deductions, curr.deductions)
    \o compareLineMaps("fringe_benefit", prev.fringeBenefits, curr.fringeBenefits)
    \o compareLineMaps("company_contribution", prev.companyContributions,
                       curr.companyContributions)
    \o compareAggregates("aggregate", AGGREGATE_FIELDS, prev, curr)
    \o SelectSeq(compareAggregates("key_amount", KEY_AMOUNT_FIELDS, prev, curr),
                 LAMBDA change : change.code \notin skipCodes)

comparePayslips(prev, curr) ==
    LET changes == SortChanges(GeneratedChanges(prev, curr))
    IN  [previousPeriod |-> [year |-> prev.period.year, month |-> prev.period.month],
         currentPeriod |-> [year |-> curr.period.year, month |-> curr.period.month],
         employeeCode |-> curr.employeeCode,
         displayName |-> curr.displayName,
         changes |-> changes,
         summary |-> [totalChanges |-> Len(changes),
                      increases |-> CountDirection(changes, "increase"),
                      decreases |-> CountDirection(changes, "decrease"),
                      added |-> CountDirection(changes, "added"),
                      removed |-> CountDirection(changes, "removed"),
                      netPayDelta |-> curr.totals.netPay - prev.totals.netPay]]

(***************************************************************************)
(* engine/facts-generator.ts                                               *)
(***************************************************************************)
CURRENCY == "ZAR"

\* Number.prototype.toLocaleString("en-ZA", exactly two fraction digits) of a
\* whole number: groups of three digits, then the two fraction digits.  The
\* separators come from the locale data of the runtime: a runtime with the
\* full ICU data formats en-ZA with a no-break space (U+00A0) between groups
\* and a decimal comma; a runtime that carries only the root English data
\* falls back to "," between groups and a decimal point.
IcuBuilds == {"full-icu", "small-icu"}
GroupSeparator == IF icu = "full-icu" THEN " " ELSE ","
DecimalSeparator == IF icu = "full-icu" THEN "," ELSE "."

ThreeDigits(n) ==
    IF n < 10 THEN "00" \o ToString(n)
    ELSE IF n < 100 THEN "0" \o ToString(n)
    ELSE ToString(n)

RECURSIVE GroupDigits(_)
GroupDigits(n) ==
    IF n < 1000 THEN ToString(n)
    ELSE GroupDigits(n \div 1000) \o GroupSeparator \o ThreeDigits(n % 1000)

formatCurrency(amount) ==
    CURRENCY \o " " \o GroupDigits(Abs(amount)) \o DecimalSeparator \o "00"

\* Math.abs(percent).toFixed(1) + "%", percent being the rational num/den
formatPercent(percent) ==
    LET tenths == (Abs(percent.num) * 20 + percent.den) \div (2 * percent.den)
    IN  ToString(tenths \div 10) \o "." \o ToString(tenths % 10) \o "%"

MonthNames ==
    << "January", "February", "March", "April", "May", "June",
       "July", "August", "September", "October", "November", "December" >>

getMonthName(month) ==
    IF month \in 1..12 THEN MonthNames[month] ELSE "Month " \o ToString(month)

CAUSAL_RULES ==
    [code \in {"SALARY", "OTIME1_5", "OTIME2_0", "COMM", "TRAVEL", "grossEarnings",
               "totalTaxableEarnings", "totalDeductions", "PAYE", "UIF", "ADVANCE"} |->
        CASE code \in {"SALARY", "OTIME1_5", "OTIME2_0", "COMM", "TRAVEL"} ->
                 <<"grossEarnings", "totalTaxableEarnings">>
          [] code = "grossEarnings" -> <<"netPay">>
          [] code = "totalTaxableEarnings" -> <<"PAYE">>
          [] code = "totalDeductions" -> <<"netPay">>
          [] code \in {"PAYE", "UIF", "ADVANCE"} -> <<"netPay">>]

\* Mutant: every code is taken to affect net pay.
getAffectedByNetPay(code) == <<"netPay">>

getAffectedBy(code) ==
    IF code \in DOMAIN CAUSAL_RULES THEN CAUSAL_RULES[code] ELSE <<>>

generateNetPaySentence(change) ==
    LET delta == formatCurrency(change.delta)
    IN  IF change.direction = "increase"
        THEN "Your net pay increased by " \o delta \o " this month."
        ELSE IF change.direction = "decrease"
        THEN "Your net pay decreased by " \o delta \o " this month."
        ELSE "Your net pay remained the same this month."

\* change.percentChange ? ` (${formatPercent(change.percentChange)})` : ""
PercentSuffix(change) ==
    IF IsSome(change.percentChange) /\ change.percentChange[1].num # 0
    THEN " (" \o formatPercent(change.percentChange[1]) \o ")"
    ELSE ""

generateEarningChangeSentence(change) ==
    LET delta == formatCurrency(Abs(change.delta))
        percent == PercentSuffix(change)
    IN  IF change.direction = "increase"
        THEN change.label \o " increased by " \o delta \o percent \o "."
        ELSE IF change.direction = "decrease"
        THEN change.label \o " decreased by " \o delta \o percent \o "."
        ELSE IF change.direction = "added"
        THEN "You received " \o change.label \o " of " \o formatCurrency(change.newValue)
             \o " this month."
        ELSE IF change.direction = "removed"
        THEN change.label \o " was not paid this month (previously "
             \o formatCurrency(change.oldValue) \o ")."
        ELSE change.label \o " remained unchanged at " \o formatCurrency(change.newValue)
             \o "."

generateDeductionChangeSentence(change) ==
    LET delta == formatCurrency(Abs(change.delta))
        percent == PercentSuffix(change)
    IN  IF change.direction = "increase"
        THEN change.label \o " increased by " \o delta \o percent \o "."
        ELSE IF change.direction = "decrease"
        THEN change.label \o " decreased by " \o delta \o percent \o "."
        ELSE IF change.direction = "added"
        THEN "A new deduction for " \o change.label \o " of "
             \o formatCurrency(change.newValue) \o " was applied."
        ELSE IF change.direction = "removed"
        THEN change.label \o " deduction was removed (previously "
             \o formatCurrency(change.oldValue) \o ")."
        ELSE change.label \o " remained unchanged at " \o formatCurrency(change.newValue)
             \o "."

generateTaxImpactSentence(change) ==
    LET delta == formatCurrency(Abs(change.delta))
    IN  IF change.code = "PAYE" /\ change.direction = "increase"
        THEN "Your PAYE tax increased by " \o delta \o " due to higher taxable earnings."
        ELSE IF change.code = "PAYE" /\ change.direction = "decrease"
        THEN "Your PAYE tax decreased by " \o delta \o " due to lower taxable earnings."
        ELSE IF change.code = "UIF" /\ change.direction = "increase"
        THEN "Your UIF contribution increased by " \o delta \o "."
        ELSE IF change.code = "UIF" /\ change.direction = "decrease"
        THEN "Your UIF contribution decreased by " \o delta \o "."
        ELSE generateDeductionChangeSentence(change)

generateCausalSentence(cause, effect) ==
    LET causeDirection == IF cause.direction = "increase" THEN "increased" ELSE "decreased"
        effectDirection == IF effect.direction = "increase" THEN "increased" ELSE "decreased"
    IN  IF cause.code = "SALARY" /\ effect.code = "PAYE"
        THEN "Because your Basic Salary " \o causeDirection \o ", your PAYE tax also "
             \o effectDirection \o "."
        ELSE IF cause.category = "earning" /\ effect.code = "grossEarnings"
        THEN "Your " \o cause.label
             \o " change contributed to the overall change in gross earnings."
        ELSE IF cause.code = "totalTaxableEarnings" /\ effect.code = "PAYE"
        THEN "Your PAYE tax " \o effectDirection \o " because your taxable earnings "
             \o causeDirection \o "."
        ELSE IF cause.code = "PAYE" /\ effect.code = "netPay"
        THEN IF cause.direction = "increase"
             THEN "The increase in PAYE (" \o formatCurrency(Abs(cause.delta))
                  \o ") reduced your net pay."
             ELSE "The decrease in PAYE (" \o formatCurrency(Abs(cause.delta))
                  \o ") increased your net pay."
        ELSE IF cause.code = "ADVANCE" /\ effect.code = "netPay"
        THEN "An advance deduction of " \o formatCurrency(cause.newValue)
             \o " significantly impacted your net pay."
        ELSE "The change in " \o cause.label \o " affected your " \o effect.label \o "."

\* Mutant: the category is looked at before the PAYE/UIF codes.
changeToFactTypeCategoryFirst(change) ==
    IF change.code = "netPay" THEN "net_pay_change"
    ELSE IF change.category = "earning"
    THEN IF change.direction = "added" THEN "earning_added"
         ELSE IF change.direction = "removed" THEN "earning_removed"
         ELSE "earning_change"
    ELSE IF change.category = "deduction"
    THEN IF change.direction = "added" THEN "deduction_added"
         ELSE IF change.direction = "removed" THEN "deduction_removed"
         ELSE "deduction_change"
    ELSE IF change.code = "PAYE" \/ change.code = "UIF" THEN "tax_impact"
    ELSE "summary"

changeToFactType(change) ==
    IF change.code = "netPay" THEN "net_pay_change"
    ELSE IF change.code = "PAYE" \/ change.code = "UIF" THEN "tax_impact"
    ELSE IF change.category = "earning"
    THEN IF change.direction = "added" THEN "earning_added"
         ELSE IF change.direction = "removed" THEN "earning_removed"
         ELSE "earning_change"
    ELSE IF change.category = "deduction"
    THEN IF change.direction = "added" THEN "deduction_added"
         ELSE IF change.direction = "removed" THEN "deduction_removed"
         ELSE "deduction_change"
    ELSE "summary"

generateFactFromChange(change) ==
    LET type == changeToFactType(change)
        sentence ==
            CASE type = "net_pay_change" -> generateNetPaySentence(change)
              [] type = "tax_impact" -> generateTaxImpactSentence(change)
              [] type \in {"earning_change", "earning_added", "earning_removed"} ->
                     generateEarningChangeSentence(change)
              [] type \in {"deduction_change", "deduction_added", "deduction_removed"} ->
                     generateDeductionChangeSentence(change)
              [] OTHER -> change.label \o " changed from " \o formatCurrency(change.oldValue)
                          \o " to " \o formatCurrency(change.newValue) \o "."
    IN  [id |-> "fact:" \o change.id,
         type |-> type,
         importance |-> change.importance,
         sentence |-> sentence,
         relatedChangeIds |-> None,
         values |-> Some([amount |-> change.newValue, delta |-> change.delta,
                          percentChange |-> change.percentChange])]

\* changesByCode.get(code): the last change record of that code, if any
ChangeByCode(changes, code) ==
    LET hits == {i \in 1..Len(changes) : changes[i].code = code}
    IN  IF hits = {} THEN None
        ELSE Some(changes[CHOOSE i \in hits : \A k \in hits : k <= i])

\* The inner loop of generateCausalFacts for one cause
RECURSIVE CausalFactsOf(_, _, _)
CausalFactsOf(changes, cause, affects) ==
    IF affects = <<>> THEN <<>>
    ELSE LET effect == ChangeByCode(changes, Head(affects))
             here == IF IsSome(effect) /\ effect[1].direction # "unchanged"
                     THEN << [id |-> "causal:" \o cause.code \o "->" \o effect[1].code,
                              type |-> "causal",
                              importance |-> "medium",
                              sentence |-> generateCausalSentence(cause, effect[1]),
                              relatedChangeIds |-> Some(<<cause.id, effect[1].id>>),
                              values |-> None] >>
                     ELSE <<>>
         IN  here \o CausalFactsOf(changes, cause, Tail(affects))

RECURSIVE CausalFactsFrom(_, _)
CausalFactsFrom(changes, causes) ==
    IF causes = <<>> THEN <<>>
    ELSE CausalFactsOf(changes, Head(causes), getAffectedBy(Head(causes).code))
         \o CausalFactsFrom(changes, Tail(causes))

generateCausalFacts(changes) == CausalFactsFrom(changes, changes)

typePriority ==
    [type \in {"net_pay_change", "summary", "causal", "tax_impact", "earning_change",
               "earning_added", "earning_removed", "deduction_change", "deduction_added",
               "deduction_removed", "no_change"} |->
        CASE type = "net_pay_change" -> 0
          [] type = "summary" -> 1
          [] type = "causal" -> 2
          [] type = "tax_impact" -> 3
          [] type = "earning_change" -> 4
          [] type = "earning_added" -> 5
          [] type = "earning_removed" -> 6
          [] type = "deduction_change" -> 7
          [] type = "deduction_added" -> 8
          [] type = "deduction_removed" -> 9
          [] type = "no_change" -> 10]

\* Mutant: the comparator looks at the type priority only.
FactOrderTypeOnly(a, b) == typePriority[a.type] - typePriority[b.type]

\* The comparator handed to facts.sort
FactOrder(a, b) ==
    LET impDiff == ImportanceOrder(a.importance) - ImportanceOrder(b.importance)
    IN  IF impDiff # 0 THEN impDiff ELSE typePriority[a.type] - typePriority[b.type]

RECURSIVE InsertFact(_, _)
InsertFact(sorted, x) ==
    IF sorted = <<>> THEN <<x>>
    ELSE IF FactOrder(Head(sorted), x) > 0 THEN <<x>> \o sorted
    ELSE <<Head(sorted)>> \o InsertFact(Tail(sorted), x)

RECURSIVE SortFacts(_)
SortFacts(s) ==
    IF s = <<>> THEN <<>>
    ELSE InsertFact(SortFacts(SubSeq(s, 1, Len(s) - 1)), s[Len(s)])

\* Mutant: no fallback sentence.
FallbackTakeawayEmpty == ""

FallbackTakeaway == "No significant changes this month."

\* Mutant: the key takeaway is the sentence of the first fact of the list.
generateFactsLeadTakeaway(cmp) ==
    LET relevantChanges ==
            SelectSeq(cmp.changes, LAMBDA c : c.category # "aggregate" \/ c.code = "netPay")
        direct == [i \in 1..Len(relevantChanges) |-> generateFactFromChange(relevantChanges[i])]
        facts == SortFacts(direct \o generateCausalFacts(cmp.changes))
    IN  [periodDescription |->
             "Changes from " \o getMonthName(cmp.previousPeriod.month) \o " to "
             \o getMonthName(cmp.currentPeriod.month) \o " "
             \o ToString(cmp.currentPeriod.year),
         employeeName |-> cmp.displayName,
         facts |-> facts,
         keyTakeaway |-> IF facts # <<>> THEN facts[1].sentence ELSE FallbackTakeaway]

generateFacts(cmp) ==
    LET relevantChanges ==
            SelectSeq(cmp.changes, LAMBDA c : c.category # "aggregate" \/ c.code = "netPay")
        direct == [i \in 1..Len(relevantChanges) |-> generateFactFromChange(relevantChanges[i])]
        facts == SortFacts(direct \o generateCausalFacts(cmp.changes))
        netPayFacts == SelectSeq(facts, LAMBDA f : f.type = "net_pay_change")
    IN  [periodDescription |->
             "Changes from " \o getMonthName(cmp.previousPeriod.month) \o " to "
             \o getMonthName(cmp.currentPeriod.month) \o " "
             \o ToString(cmp.currentPeriod.year),
         employeeName |-> cmp.displayName,
         facts |-> facts,
         keyTakeaway |-> IF netPayFacts # <<>> /\ netPayFacts[1].sentence # ""
                         THEN netPayFacts[1].sentence
                         ELSE FallbackTakeaway]

\* result.facts.slice(0, limit)
getKeyFacts(result, limit) ==
    SubSeq(result.facts, 1, IF Len(result.facts) < limit THEN Len(result.facts) ELSE limit)

getFactsByType(result, type) == SelectSeq(result.facts, LAMBDA f : f.type = type)

getCausalFacts(result) == SelectSeq(result.facts, LAMBDA f : f.type = "causal")

getAllSentences(result) == [i \in 1..Len(result.facts) |-> result.facts[i].sentence]

(***************************************************************************)
(* engine/narrator.ts                                                      *)
(***************************************************************************)
\* lines.join("\n")
RECURSIVE JoinLines(_)
JoinLines(lines) ==
    IF lines = <<>> THEN ""
    ELSE IF Len(lines) = 1 THEN lines[1]
    ELSE lines[1] \o "\n" \o JoinLines(Tail(lines))

SimpleLimit == 5

\* Mutant: the digest lists every fact.
narrateFactsSimpleAllFacts(facts) ==
    JoinLines(<< "(clipboard) **Payslip Summary for " \o facts.employeeName \o "**",
                 "(calendar) " \o facts.periodDescription,
                 "",
                 "**Key Takeaway:** " \o facts.keyTakeaway,
                 "",
                 "**Details:**" >>
              \o [i \in 1..Len(facts.facts) |-> "(bullet) " \o facts.facts[i].sentence])

\* The pictographs and the bullet of the source text are written in ASCII.
narrateFactsSimple(facts) ==
    LET keyFacts == getKeyFacts(facts, SimpleLimit)
    IN  JoinLines(<< "(clipboard) **Payslip Summary for " \o facts.employeeName \o "**",
                     "(calendar) " \o facts.periodDescription,
                     "",
                     "**Key Takeaway:** " \o facts.keyTakeaway,
                     "",
                     "**Details:**" >>
                  \o [i \in 1..Len(keyFacts) |-> "(bullet) " \o keyFacts[i].sentence])

IsSpace(ch) == ch \in {" ", "\n", "\t"}

\* String.prototype.trim
RECURSIVE TrimStart(_)
TrimStart(text) ==
    IF Len(text) > 0 /\ IsSpace(SubSeq(text, 1, 1))
    THEN TrimStart(SubSeq(text, 2, Len(text)))
    ELSE text

RECURSIVE TrimEnd(_)
TrimEnd(text) ==
    IF Len(text) > 0 /\ IsSpace(SubSeq(text, Len(text), Len(text)))
    THEN TrimEnd(SubSeq(text, 1, Len(text) - 1))
    ELSE text

Trim(text) == TrimEnd(TrimStart(text))

DefaultModel == "gpt-4o-mini"

\* What narrateFacts returns once generateText has resolved with `response`:
\* the trimmed text and the model name.  The usage counters of the response are
\* not copied, so the usage property of the NarratorResult is undefined.
NarratorResultOf(response) ==
    [explanation |-> Trim(response.text), usage |-> None, model |-> DefaultModel]

\* buildUserPrompt
buildUserPrompt(facts) ==
    LET sentences == getAllSentences(facts)
        keyFacts == getKeyFacts(facts, 3)
    IN  "Employee: " \o facts.employeeName \o "\n"
        \o "Period: " \o facts.periodDescription \o "\n\n"
        \o "KEY CHANGES (most important):\n"
        \o JoinLines([i \in 1..Len(keyFacts) |-> "- " \o keyFacts[i].sentence]) \o "\n\n"
        \o "ALL FACTS TO INCLUDE:\n"
        \o JoinLines([i \in 1..Len(sentences) |-> ToString(i) \o ". " \o sentences[i]])
        \o "\n\n"
        \o "Please write a clear, friendly explanation of these payslip changes for the employee.\n"
        \o "Keep it to 2-3 short paragraphs maximum. Do not add any information not in the facts above."

\* buildSystemPrompt, the English branch
SystemPromptEn ==
    "You are a friendly HR assistant explaining payslips to employees.\n\n"
    \o "STRICT RULES:\n"
    \o "- NEVER calculate or infer any numbers yourself\n"
    \o "- NEVER add causes or reasons not explicitly stated in the facts\n"
    \o "- Use ONLY the facts provided to you\n"
    \o "- Keep the explanation concise and clear\n"
    \o "- Be friendly and professional\n"
    \o "- Use ZAR for currency amounts\n"
    \o "- Address the employee directly using \"you/your\"\n\n"
    \o "Your task is to rewrite the given facts into a natural, readable explanation.\n"
    \o "Group related changes together and present them in a logical order.\n"
    \o "Start with the most important change (net pay), then explain what contributed to it."

\* The generateText request narrateFacts sends, under DEFAULT_CONFIG, before
\* it suspends
NarrationRequest(facts) ==
    [model |-> DefaultModel, system |-> SystemPromptEn, prompt |-> buildUserPrompt(facts)]

(***************************************************************************)
(* engine/pipeline.ts                                                      *)
(*                                                                         *)
(* An invocation is the record `call`: fn and its arguments, pc ("idle",   *)
(* "awaiting" the narration service, "returned"), the locals alive across  *)
(* the await (frame), how its promise settled and with which result.       *)
(* Two fields record history: stages, the functions the invocation has     *)
(* called so far, and thrown, the exception its try block caught, if any;  *)
(* response is what generateText resolved with, if it did.                 *)
(***************************************************************************)
Failure(error) ==
    [success |-> FALSE, error |-> Some(error), payslips |-> None, comparison |-> None,
     facts |-> None, explanation |-> None, llmUsage |-> None]

Success(frame, explanation, llmUsage) ==
    [success |-> TRUE, error |-> None,
     payslips |-> Some([previous |-> frame.previous, current |-> frame.current]),
     comparison |-> Some(frame.comparison), facts |-> Some(frame.facts),
     explanation |-> Some(explanation), llmUsage |-> llmUsage]

NotEnoughPayslips == "Not enough primary payslips to compare (need at least 2)"

\* Mutant: the message property is read off whatever was thrown.
CatchResultMessageOnly(thrown) ==
    [success |-> FALSE, error |-> IF thrown.isError THEN Some(thrown.message) ELSE None,
     payslips |-> None, comparison |-> None, facts |-> None, explanation |-> None,
     llmUsage |-> None]

\* catch (error) { return { success: false, error: ... } }
CatchResult(thrown) ==
    Failure(IF thrown.isError THEN thrown.message ELSE "Unknown error")

TypeErrorIn(stage) == [isError |-> TRUE, message |-> "TypeError in " \o stage]

IdleCall ==
    [fn |-> "none", payslips |-> <<>>, useLLM |-> FALSE, pc |-> "idle", stages |-> <<>>,
     frame |-> None, thrown |-> None, response |-> None, settled |-> "pending",
     result |-> None]

\* return <result> from the async function
Returned(c, stages, result) ==
    [c EXCEPT !.pc = "returned", !.stages = stages, !.settled = "fulfilled",
              !.result = Some(result)]

\* an exception raised inside try { ... }, caught by catch
Caught(c, stages, thrown) ==
    [c EXCEPT !.pc = "returned", !.stages = stages, !.settled = "fulfilled",
              !.thrown = Some(thrown), !.result = Some(CatchResult(thrown))]

\* Steps 3 to 5 of runPipeline, and the body of compareSpecificPayslips after
\* normalisation, up to the return or the await.  `done` are the stages run
\* so far.
DiffFactsNarrate(c, done, prev, curr) ==
    IF prev.defect = "diff" \/ curr.defect = "diff"
    THEN Caught(c, done \o <<"comparePayslips">>, TypeErrorIn("comparePayslips"))
    ELSE IF prev.defect = "facts" \/ curr.defect = "facts"
    THEN Caught(c, done \o <<"comparePayslips", "generateFacts">>,
                TypeErrorIn("generateFacts"))
    ELSE LET cmp == comparePayslips(prev, curr)
             facts == generateFacts(cmp)
             frame == [previous |-> prev, current |-> curr, comparison |-> cmp,
                       facts |-> facts]
             stages == done \o <<"comparePayslips", "generateFacts">>
         IN  IF c.useLLM
             THEN [c EXCEPT !.pc = "awaiting", !.frame = Some(frame),
                            !.stages = stages \o <<"narrateFacts">>]
             ELSE Returned([c EXCEPT !.frame = Some(frame)],
                           stages \o <<"narrateFactsSimple">>,
                           Success(frame, narrateFactsSimple(facts), None))

\* runPipeline(payslips, {useLLM}) up to its return or its await
runPipeline(payslips, useLLM) ==
    LET c == [IdleCall EXCEPT !.fn = "runPipeline", !.payslips = payslips,
                              !.useLLM = useLLM]
        done == <<"getPayslipPairForComparison">>
        pair == getPayslipPairForComparison(payslips)
    IN  IF \E i \in 1..Len(payslips) :
              isPrimaryPayslip(payslips[i]) /\ payslips[i].defect = "normalize"
        THEN Caught(c, done, TypeErrorIn("getPayslipPairForComparison"))
        ELSE IF pair = None
        THEN Returned(c, done, Failure(NotEnoughPayslips))
        ELSE DiffFactsNarrate(c, done, pair[1][1], pair[1][2])

\* compareSpecificPayslips(previous, current, {useLLM}) up to its return or await
compareSpecificPayslips(prev, curr, useLLM) ==
    LET c == [IdleCall EXCEPT !.fn = "compareSpecificPayslips",
                              !.payslips = <<prev, curr>>, !.useLLM = useLLM]
    IN  IF prev.defect = "normalize"
        THEN Caught(c, <<"normalizePayslip">>, TypeErrorIn("normalizePayslip"))
        ELSE IF curr.defect = "normalize"
        THEN Caught(c, <<"normalizePayslip", "normalizePayslip">>,
                    TypeErrorIn("normalizePayslip"))
        ELSE DiffFactsNarrate(c, <<"normalizePayslip", "normalizePayslip">>,
                              normalizePayslip(prev), normalizePayslip(curr))

\* Mutant: the await sits outside the try block, the rejection propagates.
NarrationRejectedUncaught(c, reason) ==
    [c EXCEPT !.pc = "returned", !.settled = "rejected", !.thrown = Some(reason)]

\* await narrateFacts(...) rejected: the exception is raised inside try
NarrationRejected(c, reason) == Caught(c, c.stages, reason)

\* await narrateFacts(...) resolved: explanation and llmUsage come from the
\* NarratorResult
NarrationResolved(c, response) ==
    LET narratorResult == NarratorResultOf(response)
    IN  Returned([c EXCEPT !.response = Some(response)], c.stages,
                 Success(c.frame[1], narratorResult.explanation, narratorResult.usage))

(***************************************************************************)
(* Inputs: raw payslip records (PayslipHeader) as the ingestion hands them *)
(* over, already schema-validated.                                         *)
(***************************************************************************)
MaxAmounts == 2

\* 0 and the amounts 40, 140, 240, ...: differences below and above 100
Amounts == {0} \cup {100 * k - 60 : k \in 1..MaxAmounts}

OptionalOf(S) == {None} \cup {Some(a) : a \in S}

LineDescription(code) ==
    CASE code = "SALARY" -> "Basic Salary"
      [] code = "TRAVEL" -> "Travel Allowance"
      [] code = "OTIME1_5" -> "Overtime 1.5"
      [] code = "OTIME2_0" -> "Overtime 2.0"
      [] code = "COMM" -> "Commission"
      [] code = "PAYE" -> "Tax"
      [] code = "UIF" -> "UIF"
      [] code = "ADVANCE" -> "Salary Advance"
      [] code = "MEDICAL" -> "Medical Aid"
      [] code = "PENSION" -> "Pension Fund"
      [] OTHER -> code

\* An EarningLine / FringeBenefitLine of the given code, if an amount is given
EarningLineOpt(code, amount) ==
    [i \in 1..Len(amount) |->
        [lineCode |-> code, lineDescription |-> LineDescription(code),
         total |-> amount[i], taxableAmount |-> amount[i]]]

\* A DeductionLine / CompanyContributionLine of the given code, if an amount is given
DeductionLineOpt(code, amount) ==
    [i \in 1..Len(amount) |->
        [lineCode |-> code, lineDescription |-> LineDescription(code),
         total |-> amount[i], taxDeductibleAmount |-> 0]]

RawPayslip(id, year, month, netPay, earnings, deductions, fringes, contributions) ==
    [payslipID |-> id, defect |-> "none",
     employeeCode |-> "E001", displayName |-> "Mr NEG StandardHost",
     calendarYear |-> year, calendarMonth |-> month, netPay |-> netPay,
     earnings |-> earnings, deductions |-> deductions,
     fringeBenefits |-> fringes,
     companyContributions |-> contributions]

\* The payslips the diff engine is run on
DiffPayslips ==
    { normalizePayslip(
        RawPayslip(1, 2012, 6, netPay,
                   EarningLineOpt("TRAVEL", travel) \o EarningLineOpt("OTIME1_5", ot),
                   DeductionLineOpt("PAYE", paye),
                   EarningLineOpt("TRAVEL", fringe),
                   DeductionLineOpt("PENSION", pension))) :
        netPay \in {-40, 100},
        travel \in OptionalOf(Amounts),
        ot \in OptionalOf({40}),
        paye \in OptionalOf({40, 140}),
        fringe \in OptionalOf({40}),
        pension \in OptionalOf({40}) }

(***************************************************************************)
(* The variables a specification does not use keep these values.           *)
(***************************************************************************)
UnusedPipeline == call = IdleCall /\ requests = <<>> /\ calls = <<>>
UnusedDiff ==
    previous = None /\ current = None /\ comparison = None /\ factsResult = None
UnusedImportance == impArgs = None /\ impResult = None
UnusedNormalize == rawPayslip = None /\ normalizedPayslip = None
UnusedPairing == payslipList = <<>> /\ pairResult = None
UnusedRepeat == objects = <<>> /\ callLog = <<>>
UnusedLocale == icu = "full-icu"
UnusedAccess == factsObject = None /\ accessLog = <<>>

(***************************************************************************)
(* SpecDiff: comparePayslips applied to every pair of input payslips       *)
(***************************************************************************)
InitDiff ==
    /\ previous \in DiffPayslips
    /\ current \in DiffPayslips
    /\ comparison = None
    /\ factsResult = None
    /\ UnusedPipeline /\ UnusedImportance /\ UnusedNormalize /\ UnusedPairing
    /\ UnusedRepeat /\ UnusedAccess /\ UnusedLocale

Compare ==
    /\ comparison = None
    /\ comparison' = Some(comparePayslips(previous, current))
    /\ UNCHANGED <<previous, current, factsResult, icu, pipelineVars, importanceVars,
                   normalizeVars, pairingVars, repeatVars, accessVars>>

NextDiff == Compare

SpecDiff == InitDiff /\ [][NextDiff]_vars

(***************************************************************************)
(* Spec: one invocation of the pipeline and the narration service          *)
(***************************************************************************)
MaxPayslips == 2

May ==
    RawPayslip(55, 2012, 5, 140,
               EarningLineOpt("SALARY", Some(140)) \o EarningLineOpt("TRAVEL", Some(40)),
               DeductionLineOpt("PAYE", Some(40)), <<>>, <<>>)

June ==
    RawPayslip(70, 2012, 6, 0,
               EarningLineOpt("SALARY", Some(140)) \o EarningLineOpt("TRAVEL", Some(40)),
               DeductionLineOpt("PAYE", Some(140)) \o DeductionLineOpt("ADVANCE", Some(40)),
               <<>>, DeductionLineOpt("PENSION", Some(40)))

\* A supplementary payslip: its SALARY line carries 0
JuneSupplementary ==
    RawPayslip(167, 2012, 6, 40,
               EarningLineOpt("SALARY", Some(0)) \o EarningLineOpt("COMM", Some(40)),
               <<>>, <<>>, <<>>)

\* The SALARY code twice: an empty line first, the salary on the second
MaySplitSalary ==
    [May EXCEPT !.earnings = EarningLineOpt("SALARY", Some(0)) \o May.earnings]

PipelinePayslips ==
    {May, June, JuneSupplementary, MaySplitSalary,
     [May EXCEPT !.defect = "normalize"],
     [June EXCEPT !.defect = "diff"],
     [June EXCEPT !.defect = "facts"]}

RECURSIVE SeqsUpTo(_, _)
SeqsUpTo(S, n) ==
    IF n = 0 THEN {<<>>}
    ELSE LET shorter == SeqsUpTo(S, n - 1)
         IN  shorter \cup {Append(q, x) : q \in {r \in shorter : Len(r) = n - 1}, x \in S}

PayslipLists == SeqsUpTo(PipelinePayslips, MaxPayslips)

Usage == [promptTokens |-> 120, completionTokens |-> 30, totalTokens |-> 150]

\* What generateText may resolve with: a text, with or without usage counters
GenerateTextResponses ==
    {[text |-> t, usage |-> u] :
        t \in {"Your net pay went down.", "  Your net pay went down.\n"},
        u \in {None, Some(Usage)}}

\* What generateText may reject with: an Error, or a value that is no Error
RejectReasons ==
    {[isError |-> TRUE, message |-> "Request timed out"],
     [isError |-> FALSE, message |-> "quota exceeded"]}

Init ==
    /\ call = IdleCall
    /\ requests = <<>>
    /\ calls = <<>>
    /\ icu \in IcuBuilds
    /\ UnusedDiff /\ UnusedImportance /\ UnusedNormalize /\ UnusedPairing /\ UnusedRepeat /\ UnusedAccess

\* What an action of the single-invocation pipeline leaves alone
pipelineRest ==
    <<calls, icu, diffVars, importanceVars, normalizeVars, pairingVars, repeatVars, accessVars>>

\* The request goes out when the invocation suspends in narrateFacts.
Sent(c) ==
    IF c.pc = "awaiting" THEN Append(requests, NarrationRequest(c.frame[1].facts))
    ELSE requests

RunPipeline ==
    /\ call.pc = "idle"
    /\ \E payslips \in PayslipLists, useLLM \in BOOLEAN :
          /\ call' = runPipeline(payslips, useLLM)
          /\ requests' = Sent(call')
    /\ UNCHANGED pipelineRest

CompareSpecificPayslips ==
    /\ call.pc = "idle"
    /\ \E prev \in PipelinePayslips, curr \in PipelinePayslips, useLLM \in BOOLEAN :
          /\ call' = compareSpecificPayslips(prev, curr, useLLM)
          /\ requests' = Sent(call')
    /\ UNCHANGED pipelineRest

GenerateTextResolves ==
    /\ call.pc = "awaiting"
    /\ \E response \in GenerateTextResponses : call' = NarrationResolved(call, response)
    /\ UNCHANGED <<requests, pipelineRest>>

GenerateTextRejects ==
    /\ call.pc = "awaiting"
    /\ \E reason \in RejectReasons : call' = NarrationRejected(call, reason)
    /\ UNCHANGED <<requests, pipelineRest>>

Next ==
    \/ RunPipeline
    \/ CompareSpecificPayslips
    \/ GenerateTextResolves
    \/ GenerateTextRejects

Spec == Init /\ [][Next]_vars

(***************************************************************************)
(* Claims about the pipeline (Spec)                                        *)
(***************************************************************************)
LastStage == call.stages[Len(call.stages)]

\* The invocation asked for LLM narration and generateText rejected.
NarrationFailed ==
    /\ call.pc = "returned"
    /\ call.useLLM
    /\ IsSome(call.frame)
    /\ IsSome(call.thrown)

\* C1: when LLM narration is requested and narrateFacts rejects, the
\* pipeline still returns a successful result whose explanation is the
\* simple narrator's output for the facts already computed; the failure is
\* never returned as {success: false}.
C1_NarrationFallback ==
    NarrationFailed =>
        /\ call.result[1].success
        /\ call.result[1].explanation = Some(narrateFactsSimple(call.frame[1].facts))

\* C2: runPipeline and compareSpecificPayslips never reject: the promise of
\* a finished invocation is fulfilled with a result, and an exception raised
\* in pairing/normalisation, diff, fact generation or narration is turned
\* into {success: false, error} with error the exception's message, or
\* "Unknown error" when the thrown value is not an Error.
C2_NeverRejects ==
    /\ call.settled # "rejected"
    /\ call.pc = "returned" => call.settled = "fulfilled" /\ IsSome(call.result)
    /\ IsSome(call.thrown) =>
          /\ call.pc = "returned"
          /\ IsSome(call.result)
          /\ call.result[1] =
                Failure(IF call.thrown[1].isError THEN call.thrown[1].message
                        ELSE "Unknown error")

\* generateText rejected with a value that is not an Error
C2_Witness ==
    /\ NarrationFailed
    /\ ~call.thrown[1].isError
    /\ call.result[1].error = Some("Unknown error")

\* The number of payslips of a list that carry a SALARY earning with
\* total > 0
PositiveSalaryCount(payslips) ==
    Cardinality({i \in 1..Len(payslips) :
                    \E j \in 1..Len(payslips[i].earnings) :
                        /\ payslips[i].earnings[j].lineCode = "SALARY"
                        /\ payslips[i].earnings[j].total > 0})

WellTyped(payslips) == \A i \in 1..Len(payslips) : payslips[i].defect = "none"

\* C3: when the list given to runPipeline holds fewer than two primary
\* payslips the invocation returns at once {success: false} with an error
\* message (the fixed "not enough" message when nothing in the list is
\* ill-typed); diff, fact generation and narration are not run and no
\* narration request is sent.
C3_TooFewPrimaries ==
    (call.fn = "runPipeline" /\ PositiveSalaryCount(call.payslips) < 2) =>
        /\ call.pc = "returned"
        /\ call.settled = "fulfilled"
        /\ ~call.result[1].success
        /\ IsSome(call.result[1].error)
        /\ call.stages = <<"getPayslipPairForComparison">>
        /\ call.frame = None
        /\ requests = <<>>
        /\ WellTyped(call.payslips) =>
              /\ call.thrown = None
              /\ call.result[1] = Failure(NotEnoughPayslips)

\* One primary and one supplementary payslip, LLM narration asked for
C3_Witness ==
    /\ call.fn = "runPipeline"
    /\ call.useLLM
    /\ Len(call.payslips) = 2
    /\ PositiveSalaryCount(call.payslips) = 1
    /\ WellTyped(call.payslips)
    /\ call.pc = "returned"

\* C4: a PipelineResult is discriminated by success: with success = true
\* payslips, comparison, facts and explanation are present and error is
\* absent; with success = false error is present and payslips, comparison,
\* facts, explanation and llmUsage are absent.
C4_Discriminated ==
    IsSome(call.result) =>
        LET r == call.result[1]
        IN  IF r.success
            THEN /\ IsSome(r.payslips)
                 /\ IsSome(r.comparison)
                 /\ IsSome(r.facts)
                 /\ IsSome(r.explanation)
                 /\ r.error = None
            ELSE /\ IsSome(r.error)
                 /\ r.payslips = None
                 /\ r.comparison = None
                 /\ r.facts = None
                 /\ r.explanation = None
                 /\ r.llmUsage = None

\* A failure that follows the computation of comparison and facts
C4_Witness ==
    /\ NarrationFailed
    /\ Len(call.frame[1].facts.facts) > 0
    /\ ~call.result[1].success

\* C5: when LLM narration is requested and succeeds and generateText
\* reported usage counters, the successful result's llmUsage is those
\* counters; with simple narration llmUsage is absent.
C5_UsageCarried ==
    /\ (call.pc = "returned" /\ IsSome(call.response) /\ IsSome(call.response[1].usage)) =>
          /\ call.result[1].success
          /\ call.result[1].llmUsage = call.response[1].usage
    /\ (call.pc = "returned" /\ LastStage = "narrateFactsSimple") =>
          call.result[1].llmUsage = None

(***************************************************************************)
(* SpecImp: determineImportance applied to every argument tuple            *)
(***************************************************************************)
ImpCodes == {"netPay", "PAYE", "paye", "SALARY", "basicSalary", "UIF", "TRAVEL",
             "grossEarnings", "overtime"}
ImpDeltas == {-100, -99, 0, 99, 100}

InitImp ==
    /\ impArgs \in { Some([category |-> c, code |-> k, delta |-> d, direction |-> r]) :
                        c \in Categories, k \in ImpCodes, d \in ImpDeltas, r \in Directions }
    /\ impResult = None
    /\ UnusedPipeline /\ UnusedDiff /\ UnusedNormalize /\ UnusedPairing
    /\ UnusedRepeat /\ UnusedAccess /\ UnusedLocale

Determine ==
    /\ impResult = None
    /\ impResult' = Some(determineImportance(impArgs[1].category, impArgs[1].code,
                                             impArgs[1].delta, impArgs[1].direction))
    /\ UNCHANGED <<impArgs, icu, pipelineVars, diffVars, normalizeVars, pairingVars,
                   repeatVars, accessVars>>

NextImp == Determine

SpecImp == InitImp /\ [][NextImp]_vars

(***************************************************************************)
(* Properties of the diff engine (under SpecDiff)                          *)
(***************************************************************************)
Changes == comparison[1].changes
ChangeIdx == 1..Len(Changes)

\* C6: comparing a normalized payslip with itself gives no change record,
\* all summary counts 0 and netPayDelta 0.
C6_IdenticalNoChanges ==
    (IsSome(comparison) /\ previous = current) =>
        /\ Changes = <<>>
        /\ comparison[1].summary = [totalChanges |-> 0, increases |-> 0, decreases |-> 0,
                                    added |-> 0, removed |-> 0, netPayDelta |-> 0]

C6_Witness ==
    /\ IsSome(comparison)
    /\ previous = current
    /\ Len(previous.earnings) = 2
    /\ Len(previous.deductions) = 1
    /\ previous.fringeBenefits # <<>>

\* C7: in every change record delta = newValue - oldValue, an increase has
\* delta > 0, a decrease has delta < 0, and percentChange is null exactly when
\* oldValue = 0 and otherwise equals (newValue - oldValue) / |oldValue| * 100.
C7_RecordArithmetic ==
    IsSome(comparison) =>
        \A i \in ChangeIdx :
            LET r == Changes[i]
            IN  /\ r.delta = r.newValue - r.oldValue
                /\ r.direction = "increase" => r.delta > 0
                /\ r.direction = "decrease" => r.delta < 0
                /\ (r.percentChange = None) <=> (r.oldValue = 0)
                /\ IsSome(r.percentChange) =>
                      /\ r.percentChange[1].den > 0
                      /\ r.percentChange[1].num * Abs(r.oldValue)
                            = (r.newValue - r.oldValue) * 100 * r.percentChange[1].den

C7_Witness ==
    /\ IsSome(comparison)
    /\ \E i \in ChangeIdx : Changes[i].direction = "increase" /\ Changes[i].oldValue < 0
    /\ \E i \in ChangeIdx : Changes[i].direction = "decrease" /\ Changes[i].oldValue > 0
    /\ \E i \in ChangeIdx : Changes[i].oldValue = 0 /\ Changes[i].percentChange = None

\* Rank of a category in the order comparePayslips generates the records
GenerationRank(category) ==
    CASE category = "earning" -> 1
      [] category = "deduction" -> 2
      [] category = "fringe_benefit" -> 3
      [] category = "company_contribution" -> 4
      [] category = "aggregate" -> 5
      [] category = "key_amount" -> 6

LevelRank(importance) ==
    CASE importance = "high" -> 1
      [] importance = "medium" -> 2
      [] importance = "low" -> 3

\* C8: the changes list holds the generated records ordered by importance
\* (high, medium, low), then by non-increasing |delta|; records equal on both
\* keys keep their generation order.
C8_SortedStable ==
    IsSome(comparison) =>
        LET gen == GeneratedChanges(previous, current)
            Pos(r) == CHOOSE k \in 1..Len(gen) : gen[k].id = r.id
        IN  /\ Len(Changes) = Len(gen)
            /\ {Changes[i] : i \in ChangeIdx} = {gen[k] : k \in 1..Len(gen)}
            /\ \A i, j \in ChangeIdx :
                  i < j =>
                    LET a == Changes[i]
                        b == Changes[j]
                    IN  /\ LevelRank(a.importance) <= LevelRank(b.importance)
                        /\ a.importance = b.importance => Abs(a.delta) >= Abs(b.delta)
                        /\ (a.importance = b.importance /\ Abs(a.delta) = Abs(b.delta)) =>
                              /\ Pos(a) < Pos(b)
                              /\ GenerationRank(a.category) <= GenerationRank(b.category)

C8_Witness ==
    /\ IsSome(comparison)
    /\ \E i, j \in ChangeIdx :
          /\ i < j
          /\ Changes[i].importance = Changes[j].importance
          /\ Abs(Changes[i].delta) = Abs(Changes[j].delta)
          /\ Changes[i].delta # Changes[j].delta
          /\ Changes[i].category # Changes[j].category
    /\ \E i, j \in ChangeIdx :
          /\ Changes[i].importance = Changes[j].importance
          /\ Abs(Changes[i].delta) > Abs(Changes[j].delta)
    /\ \E i \in ChangeIdx : Changes[i].category = "key_amount"
    /\ {Changes[i].importance : i \in ChangeIdx} = ImportanceLevels

\* The line-item map of a category
LineMap(ps, category) ==
    CASE category = "earning" -> ps.earnings
      [] category = "deduction" -> ps.deductions
      [] category = "fringe_benefit" -> ps.fringeBenefits
      [] category = "company_contribution" -> ps.companyContributions

LineCategories == {"earning", "deduction", "fringe_benefit", "company_contribution"}

\* C10 as stated: no emitted change record has delta = 0.
C10_NoZeroDelta ==
    IsSome(comparison) => \A i \in ChangeIdx : Changes[i].delta # 0

\* C10 as amended: a change record has delta = 0 only when its direction is
\* added or removed, and a line item present on one side only with amount 0
\* does get a change record (added or removed, delta 0).
C10_ZeroDeltaOnlyAddedRemoved ==
    IsSome(comparison) =>
        /\ \A i \in ChangeIdx :
              Changes[i].delta = 0 =>
                  /\ Changes[i].direction \in {"added", "removed"}
                  /\ Changes[i].category \in LineCategories
                  /\ Changes[i].oldValue = 0
                  /\ Changes[i].newValue = 0
        /\ \A cat \in LineCategories :
              LET old == LineMap(previous, cat)
                  new == LineMap(current, cat)
              IN  /\ \A k \in 1..Len(new) :
                        (new[k].amount = 0 /\ ~MapHas(old, new[k].code)) =>
                            \E i \in ChangeIdx :
                                /\ Changes[i].category = cat
                                /\ Changes[i].code = new[k].code
                                /\ Changes[i].direction = "added"
                                /\ Changes[i].delta = 0
                  /\ \A k \in 1..Len(old) :
                        (old[k].amount = 0 /\ ~MapHas(new, old[k].code)) =>
                            \E i \in ChangeIdx :
                                /\ Changes[i].category = cat
                                /\ Changes[i].code = old[k].code
                                /\ Changes[i].direction = "removed"
                                /\ Changes[i].delta = 0

C10_Witness ==
    /\ IsSome(comparison)
    /\ \E i \in ChangeIdx : Changes[i].direction = "added" /\ Changes[i].delta = 0

(***************************************************************************)
(* Properties of determineImportance (under SpecImp)                       *)
(***************************************************************************)
HighCodes == {"netPay", "PAYE", "paye", "SALARY", "basicSalary"}

\* C9: determineImportance gives high for the codes netPay, PAYE, paye, SALARY,
\* basicSalary whatever the other arguments; else medium for added/removed;
\* else medium for category aggregate; else low for |delta| < 100; else
\* medium.  Hence high is returned for those five codes only.
C9_ImportanceRules ==
    IsSome(impResult) =>
        LET a == impArgs[1]
            level == impResult[1]
            byCode == a.code \in HighCodes
            byDirection == a.direction \in {"added", "removed"}
            byCategory == a.category = "aggregate"
            small == (a.delta < 100 /\ a.delta > -100)
        IN  /\ byCode => level = "high"
            /\ (~byCode /\ byDirection) => level = "medium"
            /\ (~byCode /\ ~byDirection /\ byCategory) => level = "medium"
            /\ (~byCode /\ ~byDirection /\ ~byCategory /\ small) => level = "low"
            /\ (~byCode /\ ~byDirection /\ ~byCategory /\ ~small) => level = "medium"
            /\ level = "high" => byCode

C9_Witness ==
    /\ IsSome(impResult)
    /\ impResult[1] = "high"
    /\ impArgs[1].direction = "added"
    /\ impArgs[1].delta = 99
    /\ impArgs[1].category = "deduction"

(***************************************************************************)
(* SpecNorm: normalizePayslip applied to raw payslips whose line lists may *)
(* repeat a code                                                           *)
(***************************************************************************)
MaxLines == 2

NormEarningLines ==
    {[lineCode |-> "SALARY", lineDescription |-> "Basic Salary", total |-> 140,
      taxableAmount |-> 140],
     [lineCode |-> "TRAVEL", lineDescription |-> "Travel Allowance", total |-> 40,
      taxableAmount |-> 40],
     [lineCode |-> "TRAVEL", lineDescription |-> "Travel Allowance", total |-> 140,
      taxableAmount |-> 0]}

NormDeductionLines ==
    {[lineCode |-> "PAYE", lineDescription |-> "Tax", total |-> 40,
      taxDeductibleAmount |-> 0],
     [lineCode |-> "MEDICAL", lineDescription |-> "Medical Aid", total |-> 40,
      taxDeductibleAmount |-> 40],
     [lineCode |-> "MEDICAL", lineDescription |-> "Medical Aid", total |-> 140,
      taxDeductibleAmount |-> 100]}

NormFringeLines ==
    {[lineCode |-> "TRAVEL", lineDescription |-> "Travel Allowance", total |-> t,
      taxableAmount |-> t] : t \in {40, 140}}

NormContributionLines ==
    {[lineCode |-> "PENSION", lineDescription |-> "Pension Fund", total |-> 40,
      taxDeductibleAmount |-> 40]}

NormPayslips ==
    { RawPayslip(55, 2012, 5, 100, e, d, f, c) :
        e \in SeqsUpTo(NormEarningLines, MaxLines),
        d \in SeqsUpTo(NormDeductionLines, MaxLines),
        f \in SeqsUpTo(NormFringeLines, MaxLines),
        c \in SeqsUpTo(NormContributionLines, MaxLines) }

InitNorm ==
    /\ rawPayslip \in {Some(p) : p \in NormPayslips}
    /\ normalizedPayslip = None
    /\ UnusedPipeline /\ UnusedDiff /\ UnusedImportance /\ UnusedPairing
    /\ UnusedRepeat /\ UnusedAccess /\ UnusedLocale

Normalize ==
    /\ normalizedPayslip = None
    /\ normalizedPayslip' = Some(normalizePayslip(rawPayslip[1]))
    /\ UNCHANGED <<rawPayslip, icu, pipelineVars, diffVars, importanceVars, pairingVars,
                   repeatVars, accessVars>>

NextNorm == Normalize

SpecNorm == InitNorm /\ [][NextNorm]_vars

(***************************************************************************)
(* Properties of normalisation (under SpecNorm)                            *)
(***************************************************************************)
SumAmount(m) == SumSeq([i \in 1..Len(m) |-> m[i].amount])
SumTaxableAmount(m) == SumSeq([i \in 1..Len(m) |-> m[i].taxableAmount])
SumTaxDeductibleAmount(m) == SumSeq([i \in 1..Len(m) |-> m[i].taxDeductibleAmount])

\* C11: in every NormalizedPayslip returned by normalizePayslip each
\* aggregate of totals equals the sum over the matching line-item map, also
\* when a raw list holds two lines with the same code.
C11_TotalsMatchMaps ==
    IsSome(normalizedPayslip) =>
        LET n == normalizedPayslip[1]
        IN  /\ n.totals.grossEarnings = SumAmount(n.earnings)
            /\ n.totals.totalTaxableEarnings = SumTaxableAmount(n.earnings)
            /\ n.totals.totalDeductions = SumAmount(n.deductions)
            /\ n.totals.totalTaxDeductible = SumTaxDeductibleAmount(n.deductions)
            /\ n.totals.totalFringeBenefits = SumAmount(n.fringeBenefits)
            /\ n.totals.totalCompanyContributions = SumAmount(n.companyContributions)

(***************************************************************************)
(* SpecPair: getPayslipPairForComparison applied to lists of payslips of   *)
(* several periods, primary and supplementary                              *)
(***************************************************************************)
MaxPairList == 3

PrimaryOf(id, year, month) ==
    RawPayslip(id, year, month, 100,
               EarningLineOpt("SALARY", Some(140)), DeductionLineOpt("PAYE", Some(40)),
               <<>>, <<>>)

SupplementaryOf(id, year, month) ==
    RawPayslip(id, year, month, 40,
               EarningLineOpt("COMM", Some(40)) \o EarningLineOpt("SALARY", Some(0)),
               <<>>, <<>>, <<>>)

\* A supplementary payslip without any SALARY line
BonusRun == RawPayslip(171, 2012, 7, 40, EarningLineOpt("COMM", Some(40)), <<>>, <<>>, <<>>)

PairPayslips ==
    {PrimaryOf(31, 2011, 12), PrimaryOf(36, 2012, 1), PrimaryOf(55, 2012, 5),
     PrimaryOf(70, 2012, 6), PrimaryOf(71, 2012, 6),
     SupplementaryOf(167, 2012, 6), BonusRun}

InitPair ==
    /\ payslipList \in SeqsUpTo(PairPayslips, MaxPairList)
    /\ pairResult = None
    /\ UnusedPipeline /\ UnusedDiff /\ UnusedImportance /\ UnusedNormalize
    /\ UnusedRepeat /\ UnusedAccess /\ UnusedLocale

GetPair ==
    /\ pairResult = None
    /\ pairResult' = Some(getPayslipPairForComparison(payslipList))
    /\ UNCHANGED <<payslipList, icu, pipelineVars, diffVars, importanceVars,
                   normalizeVars, repeatVars, accessVars>>

NextPair == GetPair

SpecPair == InitPair /\ [][NextPair]_vars

(***************************************************************************)
(* Properties of pairing (under SpecPair)                                  *)
(***************************************************************************)
HasPositiveSalary(payslip) ==
    \E j \in 1..Len(payslip.earnings) :
        payslip.earnings[j].lineCode = "SALARY" /\ payslip.earnings[j].total > 0

LaterPeriod(a, b) ==
    \/ a.calendarYear > b.calendarYear
    \/ a.calendarYear = b.calendarYear /\ a.calendarMonth > b.calendarMonth

PrimaryPositions == {i \in 1..Len(payslipList) : HasPositiveSalary(payslipList[i])}

FactPayslips(month) ==
    { normalizePayslip(
        RawPayslip(50 + month, 2012, month, netPay,
                   EarningLineOpt("SALARY", Some(salary)) \o EarningLineOpt("TRAVEL", travel),
                   DeductionLineOpt("PAYE", Some(paye)) \o DeductionLineOpt("ADVANCE", advance),
                   EarningLineOpt("TRAVEL", fringe),
                   <<>>)) :
        netPay \in {19000, 18300},
        salary \in {25000, 26000},
        travel \in OptionalOf({1500}),
        paye \in {5000, 5200},
        advance \in OptionalOf({500}),
        fringe \in OptionalOf({1600}) }

InitFacts ==
    /\ previous \in FactPayslips(5)
    /\ current \in FactPayslips(6)
    /\ comparison = None
    /\ factsResult = None
    /\ icu \in IcuBuilds
    /\ UnusedPipeline /\ UnusedImportance /\ UnusedNormalize /\ UnusedPairing
    /\ UnusedRepeat /\ UnusedAccess

GenerateFacts ==
    /\ IsSome(comparison)
    /\ factsResult = None
    /\ factsResult' = Some(generateFacts(comparison[1]))
    /\ UNCHANGED <<previous, current, comparison, icu, pipelineVars, importanceVars,
                   normalizeVars, pairingVars, repeatVars, accessVars>>

NextFacts ==
    \/ Compare
    \/ GenerateFacts

SpecFacts == InitFacts /\ [][NextFacts]_vars

(***************************************************************************)
(* Properties of the facts generator (under SpecFacts)                     *)
(***************************************************************************)
Facts == factsResult[1].facts
FactIdx == 1..Len(Facts)

IsCausal(f) == f.type = "causal"

\* Position in comparison.changes of the record with the given id
ChangePos(id) == CHOOSE k \in ChangeIdx : Changes[k].id = id

IndexIn(seq, x) == CHOOSE k \in 1..Len(seq) : seq[k] = x

\* The change record a direct fact was made from
ChangeOfFact(f) == CHOOSE k \in ChangeIdx : f.id = "fact:" \o Changes[k].id

DependencyTable ==
    << <<"SALARY", <<"grossEarnings", "totalTaxableEarnings">> >>,
       <<"OTIME1_5", <<"grossEarnings", "totalTaxableEarnings">> >>,
       <<"OTIME2_0", <<"grossEarnings", "totalTaxableEarnings">> >>,
       <<"COMM", <<"grossEarnings", "totalTaxableEarnings">> >>,
       <<"TRAVEL", <<"grossEarnings", "totalTaxableEarnings">> >>,
       <<"grossEarnings", <<"netPay">> >>,
       <<"totalTaxableEarnings", <<"PAYE">> >>,
       <<"totalDeductions", <<"netPay">> >>,
       <<"PAYE", <<"netPay">> >>,
       <<"UIF", <<"netPay">> >>,
       <<"ADVANCE", <<"netPay">> >> >>

\* The (cause code, effect code) pairs of the dependency table
DependencyPairs ==
    UNION {{<<DependencyTable[r][1], DependencyTable[r][2][e]>> :
               e \in 1..Len(DependencyTable[r][2])} :
           r \in 1..Len(DependencyTable)}

\* The effect codes the table lists under a cause code, in table order
EffectsOf(code) ==
    LET rows == {r \in 1..Len(DependencyTable) : DependencyTable[r][1] = code}
    IN  IF rows = {} THEN <<>> ELSE DependencyTable[CHOOSE r \in rows : TRUE][2]

TypePriorityList ==
    <<"net_pay_change", "summary", "causal", "tax_impact", "earning_change",
      "earning_added", "earning_removed", "deduction_change", "deduction_added",
      "deduction_removed", "no_change">>

\* Generation order: the direct facts in the order of their change records,
\* then the causal facts by cause record and, for one cause, in table order.
GenerationPos(f) ==
    IF IsCausal(f)
    THEN LET cause == Changes[ChangePos(f.relatedChangeIds[1][1])]
             effect == Changes[ChangePos(f.relatedChangeIds[1][2])]
         IN  Len(Changes) + 2 * ChangePos(cause.id)
             + IndexIn(EffectsOf(cause.code), effect.code)
    ELSE ChangeOfFact(f)

\* C13: the facts list is ordered by importance (high, medium, low), then by
\* the fixed type priority; facts equal on both keys keep their generation
\* order (direct facts in change-list order, then causal facts).
C13_FactsSortedStable ==
    IsSome(factsResult) =>
        \A i, j \in FactIdx :
            i < j =>
                LET a == Facts[i]
                    b == Facts[j]
                IN  /\ LevelRank(a.importance) <= LevelRank(b.importance)
                    /\ a.importance = b.importance =>
                          IndexIn(TypePriorityList, a.type) <= IndexIn(TypePriorityList, b.type)
                    /\ (a.importance = b.importance /\ a.type = b.type) =>
                          GenerationPos(a) < GenerationPos(b)

\* The sort moved a fact in front of one generated earlier, and two causal
\* facts tie on both keys.
C13_Witness ==
    /\ IsSome(factsResult)
    /\ \E i, j \in FactIdx :
          /\ i < j
          /\ Facts[i].importance = Facts[j].importance
          /\ IsCausal(Facts[i])
          /\ ~IsCausal(Facts[j])
    /\ \E i, j \in FactIdx :
          /\ i < j
          /\ ~IsCausal(Facts[i]) /\ ~IsCausal(Facts[j])
          /\ ChangeOfFact(Facts[i]) > ChangeOfFact(Facts[j])
    /\ \E i, j \in FactIdx : i < j /\ IsCausal(Facts[i]) /\ IsCausal(Facts[j])


\* C14: keyTakeaway is the sentence of the first net_pay_change fact of the
\* final facts list when there is one, and the fixed sentence "No significant
\* changes this month." when there is none.
C14_KeyTakeaway ==
    IsSome(factsResult) =>
        LET netPayIdx == {i \in FactIdx : Facts[i].type = "net_pay_change"}
        IN  IF netPayIdx = {}
            THEN factsResult[1].keyTakeaway = "No significant changes this month."
            ELSE factsResult[1].keyTakeaway
                    = Facts[CHOOSE i \in netPayIdx : \A k \in netPayIdx : i <= k].sentence

\* Facts were produced, none of them about net pay
C14_Witness ==
    /\ IsSome(factsResult)
    /\ Facts # <<>>
    /\ \A i \in FactIdx : Facts[i].type # "net_pay_change"
    /\ previous.totals.netPay = current.totals.netPay

\* The codes that have a change record with a direction other than unchanged
ChangedCodes == {Changes[k].code : k \in {n \in ChangeIdx : Changes[n].direction # "unchanged"}}

CausalFactIdx == {i \in FactIdx : IsCausal(Facts[i])}

\* C15: the number of causal facts equals the number of (cause code, effect
\* code) pairs of the dependency table whose two codes both have a change
\* record with a non-unchanged direction; each such pair gives exactly one
\* causal fact, also when a code has change records in several categories.
C15_OneCausalFactPerPair ==
    IsSome(factsResult) =>
        LET pairs == {p \in DependencyPairs : p[1] \in ChangedCodes /\ p[2] \in ChangedCodes}
        IN  /\ Cardinality(CausalFactIdx) = Cardinality(pairs)
            /\ \A p \in pairs :
                  Cardinality({i \in CausalFactIdx :
                                  Facts[i].id = "causal:" \o p[1] \o "->" \o p[2]}) = 1

\* C16: every causal fact has importance medium and relatedChangeIds =
\* [cause.id, effect.id] for two records of comparison.changes, the effect's
\* code listed in the dependency table under the cause's code and the
\* effect's direction not unchanged.
C16_CausalFactShape ==
    IsSome(factsResult) =>
        \A i \in CausalFactIdx :
            LET f == Facts[i]
            IN  /\ f.importance = "medium"
                /\ IsSome(f.relatedChangeIds)
                /\ \E c, e \in ChangeIdx :
                      /\ f.relatedChangeIds[1] = <<Changes[c].id, Changes[e].id>>
                      /\ f.id = "causal:" \o Changes[c].code \o "->" \o Changes[e].code
                      /\ <<Changes[c].code, Changes[e].code>> \in DependencyPairs
                      /\ Changes[e].direction # "unchanged"

\* Causal facts whose cause is a high-importance record and causal facts
\* whose cause is an aggregate
C16_Witness ==
    /\ IsSome(factsResult)
    /\ \E i \in CausalFactIdx :
          Changes[ChangePos(Facts[i].relatedChangeIds[1][1])].importance = "high"
    /\ \E i \in CausalFactIdx :
          Changes[ChangePos(Facts[i].relatedChangeIds[1][1])].category = "aggregate"
    /\ \E i \in CausalFactIdx :
          Changes[ChangePos(Facts[i].relatedChangeIds[1][1])].direction = "added"

\* The changes generateFacts makes a direct fact from
IsRelevantChange(c) == c.category # "aggregate" \/ c.code = "netPay"

ByDirection(direction, added, removed, changed) ==
    CASE direction = "added" -> added
      [] direction = "removed" -> removed
      [] OTHER -> changed

ExpectedFactType(c) ==
    CASE c.code = "netPay" -> "net_pay_change"
      [] c.code # "netPay" /\ c.code \in {"PAYE", "UIF"} -> "tax_impact"
      [] c.code \notin {"netPay", "PAYE", "UIF"} /\ c.category = "earning" ->
             ByDirection(c.direction, "earning_added", "earning_removed", "earning_change")
      [] c.code \notin {"netPay", "PAYE", "UIF"} /\ c.category = "deduction" ->
             ByDirection(c.direction, "deduction_added", "deduction_removed",
                         "deduction_change")
      [] OTHER -> "summary"

\* C17: generateFacts emits exactly one direct fact for every change that is
\* not an aggregate or is netPay, none for any other aggregate change; the
\* fact carries the change's importance and the type the rule table gives.
C17_DirectFacts ==
    IsSome(factsResult) =>
        LET direct == {i \in FactIdx : ~IsCausal(Facts[i])}
        IN  /\ \A k \in ChangeIdx :
                  LET made == {i \in direct : Facts[i].id = "fact:" \o Changes[k].id}
                  IN  IF IsRelevantChange(Changes[k])
                      THEN /\ Cardinality(made) = 1
                           /\ \A i \in made :
                                 /\ Facts[i].importance = Changes[k].importance
                                 /\ Facts[i].type = ExpectedFactType(Changes[k])
                      ELSE made = {}
            /\ Cardinality(direct)
                  = Cardinality({k \in ChangeIdx : IsRelevantChange(Changes[k])})

\* Direct facts of type tax_impact, summary, earning_added and
\* deduction_added next to aggregate changes that give no direct fact
C17_Witness ==
    /\ IsSome(factsResult)
    /\ \E k \in ChangeIdx : Changes[k].category = "aggregate" /\ Changes[k].code # "netPay"
    /\ \A t \in {"net_pay_change", "tax_impact", "summary", "earning_added",
                 "deduction_added", "earning_change"} :
          \E i \in FactIdx : Facts[i].type = t

\* text.includes(part)
Contains(text, part) ==
    \E k \in 1..(Len(text) - Len(part) + 1) : SubSeq(text, k, k + Len(part) - 1) = part

ScenarioPrevious ==
    normalizePayslip(
        RawPayslip(55, 2012, 5, 19000,
                   EarningLineOpt("SALARY", Some(25000)) \o EarningLineOpt("TRAVEL", Some(1500)),
                   DeductionLineOpt("PAYE", Some(5000)), <<>>, <<>>))

ScenarioCurrent ==
    normalizePayslip(
        RawPayslip(56, 2012, 6, 18300,
                   EarningLineOpt("SALARY", Some(25000)) \o EarningLineOpt("TRAVEL", Some(1500)),
                   DeductionLineOpt("PAYE", Some(5200)) \o DeductionLineOpt("ADVANCE", Some(500)),
                   <<>>, <<>>))

InScenario ==
    /\ IsSome(factsResult)
    /\ previous = ScenarioPrevious
    /\ current = ScenarioCurrent

\* The part of the scenario that is about the change records and the facts
ScenarioRecordsAndFacts ==
    /\ \E k \in ChangeIdx :
          /\ Changes[k].code = "PAYE"
          /\ Changes[k].direction = "increase"
          /\ Changes[k].delta = 200
          /\ Changes[k].importance = "high"
    /\ \E k \in ChangeIdx :
          /\ Changes[k].code = "ADVANCE"
          /\ Changes[k].direction = "added"
          /\ Changes[k].importance = "medium"
    /\ Changes[1].code = "netPay"
    /\ Changes[1].direction = "decrease"
    /\ Changes[1].delta = -700
    /\ Changes[1].importance = "high"
    /\ \A k \in ChangeIdx : Changes[k].code \notin {"SALARY", "TRAVEL"}
    /\ \E i \in CausalFactIdx :
          /\ Facts[i].id = "causal:PAYE->netPay"
          /\ Facts[i].relatedChangeIds = Some(<<"deduction:PAYE:amount", "aggregate:netPay">>)
    /\ \E i \in FactIdx :
          /\ Facts[i].type = "net_pay_change"
          /\ factsResult[1].keyTakeaway = Facts[i].sentence
    /\ Contains(factsResult[1].keyTakeaway, "Your net pay decreased by ZAR 700")

\* C18: in the end-to-end scenario (PAYE 5000 -> 5200, ADVANCE 500 added,
\* net pay 19000 -> 18300, SALARY and TRAVEL equal) comparePayslips gives a
\* PAYE increase of 200 (high), an ADVANCE added record (medium), a netPay
\* decrease of -700 (high) first in the list and no SALARY or TRAVEL record;
\* generateFacts gives a causal fact PAYE -> netPay and a keyTakeaway that
\* is the net pay sentence and contains "decreased by ZAR 700.00".
C18_Scenario ==
    InScenario =>
        /\ ScenarioRecordsAndFacts
        /\ Contains(factsResult[1].keyTakeaway, "decreased by ZAR 700.00")

(***************************************************************************)
(* SpecRepeat: comparePayslips called again and again on payslip objects   *)
(* that live on the heap                                                   *)
(*                                                                         *)
(* diff-engine.ts keeps two module-level tables, AGGREGATE_FIELDS and      *)
(* KEY_AMOUNT_FIELDS, which it only iterates; a call reads its two         *)
(* arguments through Map.keys, Map.get and field reads, and sorts an array *)
(* it has built itself.                                                    *)
(***************************************************************************)
MaxCompareCalls == 3

HeapPayslips ==
    [name \in {"may", "june", "juneRerun"} |->
        CASE name = "may" -> ScenarioPrevious
          [] name = "june" -> ScenarioCurrent
          [] name = "juneRerun" ->
                 normalizePayslip(
                     RawPayslip(57, 2012, 6, 18300,
                                EarningLineOpt("SALARY", Some(25000))
                                    \o EarningLineOpt("OTIME1_5", Some(0)),
                                DeductionLineOpt("PAYE", Some(5000)), <<>>, <<>>))]

\* Mutant: a call files the codes its second argument lacks into that
\* argument's earnings map, with amount 0.
HeapAfterCompareFilling(heap, prevName, currName) ==
    LET prev == heap[prevName]
        curr == heap[currName]
        missing == SelectSeq(prev.earnings, LAMBDA line : ~MapHas(curr.earnings, line.code))
        filled == curr.earnings \o [k \in 1..Len(missing) |-> [missing[k] EXCEPT !.amount = 0]]
    IN  [heap EXCEPT ![currName] = [curr EXCEPT !.earnings = filled]]

\* The heap after comparePayslips(heap[prevName], heap[currName]): the call
\* writes to neither argument
HeapAfterCompare(heap, prevName, currName) == heap

InitRepeat ==
    /\ objects = HeapPayslips
    /\ callLog = <<>>
    /\ UnusedPipeline /\ UnusedDiff /\ UnusedImportance /\ UnusedNormalize
    /\ UnusedPairing /\ UnusedLocale /\ UnusedAccess

CompareAgain ==
    /\ Len(callLog) < MaxCompareCalls
    /\ \E prevName \in DOMAIN objects, currName \in DOMAIN objects :
          /\ callLog' = Append(callLog,
                               [previous |-> prevName, current |-> currName,
                                result |-> comparePayslips(objects[prevName],
                                                           objects[currName])])
          /\ objects' = HeapAfterCompare(objects, prevName, currName)
    /\ UNCHANGED <<icu, pipelineVars, diffVars, importanceVars, normalizeVars, pairingVars,
                   accessVars>>

NextRepeat == CompareAgain

SpecRepeat == InitRepeat /\ [][NextRepeat]_vars

MaxCalls == 2

CallIds == 1..MaxCalls

ConcLists == {<<May, June>>, <<May>>}

ConcPairs == {<<June, May>>}

\* Mutant: the locals are kept in module scope, so a resumed invocation
\* finds the frame of the invocation that suspended last.
ResumeResolvedSharedLocals(cs, i, response) ==
    LET waiting == {j \in DOMAIN cs : cs[j].pc = "awaiting"}
        last == CHOOSE j \in waiting : \A k \in waiting : k <= j
    IN  [cs EXCEPT ![i] = NarrationResolved([cs[i] EXCEPT !.frame = cs[last].frame],
                                            response)]

\* Invocation i resumes after its await resolved
ResumeResolved(cs, i, response) == [cs EXCEPT ![i] = NarrationResolved(cs[i], response)]

\* Invocation i resumes after its await rejected
ResumeRejected(cs, i, reason) == [cs EXCEPT ![i] = NarrationRejected(cs[i], reason)]

InitConc ==
    /\ calls = [i \in CallIds |-> IdleCall]
    /\ requests = <<>>
    /\ call = IdleCall
    /\ icu \in IcuBuilds
    /\ UnusedDiff /\ UnusedImportance /\ UnusedNormalize /\ UnusedPairing /\ UnusedRepeat /\ UnusedAccess

concRest == <<call, icu, diffVars, importanceVars, normalizeVars, pairingVars, repeatVars, accessVars>>

\* The request goes out when invocation i suspends in narrateFacts.
SentBy(c) ==
    IF c.pc = "awaiting" THEN Append(requests, NarrationRequest(c.frame[1].facts))
    ELSE requests

ConcRunPipeline ==
    /\ \E i \in CallIds, payslips \in ConcLists, useLLM \in BOOLEAN :
          /\ calls[i].pc = "idle"
          /\ calls' = [calls EXCEPT ![i] = runPipeline(payslips, useLLM)]
          /\ requests' = SentBy(calls'[i])
    /\ UNCHANGED concRest

ConcCompareSpecificPayslips ==
    /\ \E i \in CallIds, args \in ConcPairs, useLLM \in BOOLEAN :
          /\ calls[i].pc = "idle"
          /\ calls' = [calls EXCEPT ![i] = compareSpecificPayslips(args[1], args[2], useLLM)]
          /\ requests' = SentBy(calls'[i])
    /\ UNCHANGED concRest

ConcGenerateTextResolves ==
    /\ \E i \in CallIds, response \in GenerateTextResponses :
          /\ calls[i].pc = "awaiting"
          /\ calls' = ResumeResolved(calls, i, response)
    /\ UNCHANGED <<requests, concRest>>

ConcGenerateTextRejects ==
    /\ \E i \in CallIds, reason \in RejectReasons :
          /\ calls[i].pc = "awaiting"
          /\ calls' = ResumeRejected(calls, i, reason)
    /\ UNCHANGED <<requests, concRest>>

NextConc ==
    \/ ConcRunPipeline
    \/ ConcCompareSpecificPayslips
    \/ ConcGenerateTextResolves
    \/ ConcGenerateTextRejects

SpecConc == InitConc /\ [][NextConc]_vars

(***************************************************************************)
(* Properties of concurrent invocations (under SpecConc)                   *)
(***************************************************************************)
\* The invocation with the arguments of c, run alone up to its return or
\* its await
StartedAlone(c) ==
    IF c.fn = "runPipeline" THEN runPipeline(c.payslips, c.useLLM)
    ELSE compareSpecificPayslips(c.payslips[1], c.payslips[2], c.useLLM)

\* The result of the invocation with the arguments of c, run alone and
\* given the narration outcome c was given
ResultAlone(c) ==
    LET started == StartedAlone(c)
    IN  IF started.pc = "returned" THEN started.result
        ELSE IF IsSome(c.response) THEN NarrationResolved(started, c.response[1]).result
        ELSE NarrationRejected(started, c.thrown[1]).result

MaxFacts == 6

MaxAccessCalls == 2

AccessFactTypes == <<"causal", "net_pay_change", "earning_change", "causal", "tax_impact">>

\* The k-th fact of the pool the input fact lists are drawn from
AccessFact(k) ==
    LET type == AccessFactTypes[((k - 1) % Len(AccessFactTypes)) + 1]
    IN  [id |-> (IF type = "causal" THEN "causal:" ELSE "fact:") \o ToString(k),
         type |-> type,
         importance |-> IF k % 2 = 0 THEN "high" ELSE "medium",
         sentence |-> "Statement " \o ToString(k) \o " of the payslip.",
         relatedChangeIds |-> None,
         values |-> None]

\* The facts of the pool with the given numbers, in ascending order
RECURSIVE FactsNumbered(_)
FactsNumbered(S) ==
    IF S = {} THEN <<>>
    ELSE LET k == CHOOSE x \in S : \A y \in S : x <= y
         IN  <<AccessFact(k)>> \o FactsNumbered(S \ {k})

\* Well-formed FactsResults with 0 to MaxFacts facts
AccessFactsResults ==
    { [periodDescription |-> "Changes from May to June 2012",
       employeeName |-> "Mr NEG StandardHost",
       facts |-> FactsNumbered(S),
       keyTakeaway |-> IF 2 \in S THEN AccessFact(2).sentence ELSE FallbackTakeaway] :
        S \in SUBSET (1..MaxFacts) }

AccessLimits == {3, SimpleLimit}

AccessTypes == {"causal", "net_pay_change", "deduction_added"}

\* Mutant: the first facts are taken out of the list (splice for slice).
FactsAfterGetKeyFactsSplice(result, limit) ==
    [result EXCEPT !.facts = SubSeq(result.facts, limit + 1, Len(result.facts))]

\* The FactsResult object after getKeyFacts(result, limit): slice copies
FactsAfterGetKeyFacts(result, limit) == result

\* The FactsResult object after getFactsByType, getCausalFacts or
\* getAllSentences: filter and map build new arrays
FactsAfterFilter(result) == result

InitAccess ==
    /\ factsObject \in {Some(r) : r \in AccessFactsResults}
    /\ accessLog = <<>>
    /\ UnusedPipeline /\ UnusedDiff /\ UnusedImportance /\ UnusedNormalize
    /\ UnusedPairing /\ UnusedRepeat /\ UnusedLocale

accessRest ==
    <<icu, pipelineVars, diffVars, importanceVars, normalizeVars, pairingVars, repeatVars>>

Logged(fn, arg, result) ==
    Append(accessLog, [fn |-> fn, arg |-> arg, facts |-> factsObject[1], result |-> result])

GetKeyFacts ==
    /\ Len(accessLog) < MaxAccessCalls
    /\ \E limit \in AccessLimits :
          /\ accessLog' = Logged("getKeyFacts", Some(limit), getKeyFacts(factsObject[1], limit))
          /\ factsObject' = Some(FactsAfterGetKeyFacts(factsObject[1], limit))
    /\ UNCHANGED accessRest

GetFactsByType ==
    /\ Len(accessLog) < MaxAccessCalls
    /\ \E type \in AccessTypes :
          accessLog' = Logged("getFactsByType", Some(type), getFactsByType(factsObject[1], type))
    /\ factsObject' = Some(FactsAfterFilter(factsObject[1]))
    /\ UNCHANGED accessRest

GetCausalFacts ==
    /\ Len(accessLog) < MaxAccessCalls
    /\ accessLog' = Logged("getCausalFacts", None, getCausalFacts(factsObject[1]))
    /\ factsObject' = Some(FactsAfterFilter(factsObject[1]))
    /\ UNCHANGED accessRest

GetAllSentences ==
    /\ Len(accessLog) < MaxAccessCalls
    /\ accessLog' = Logged("getAllSentences", None, getAllSentences(factsObject[1]))
    /\ factsObject' = Some(FactsAfterFilter(factsObject[1]))
    /\ UNCHANGED accessRest

\* narrateFactsSimple reads the object through getKeyFacts(facts, 5) and
\* makes no call to generateText
NarrateFactsSimple ==
    /\ Len(accessLog) < MaxAccessCalls
    /\ accessLog' = Logged("narrateFactsSimple", None, narrateFactsSimple(factsObject[1]))
    /\ factsObject' = Some(FactsAfterGetKeyFacts(factsObject[1], SimpleLimit))
    /\ UNCHANGED accessRest

NextAccess ==
    \/ GetKeyFacts
    \/ GetFactsByType
    \/ GetCausalFacts
    \/ GetAllSentences
    \/ NarrateFactsSimple

SpecAccess == InitAccess /\ [][NextAccess]_vars

(***************************************************************************)
(* Properties of the digest and the accessors (under SpecAccess)           *)
(***************************************************************************)
AccessIdx == 1..Len(accessLog)

Min(a, b) == IF a < b THEN a ELSE b

\* text.split("\n")
RECURSIVE SplitLines(_)
SplitLines(text) ==
    LET breaks == {k \in 1..Len(text) : SubSeq(text, k, k) = "\n"}
    IN  IF breaks = {} THEN <<text>>
        ELSE LET k == CHOOSE x \in breaks : \A y \in breaks : x <= y
             IN  <<SubSeq(text, 1, k - 1)>> \o SplitLines(SubSeq(text, k + 1, Len(text)))

StartsWith(text, part) == Len(text) >= Len(part) /\ SubSeq(text, 1, Len(part)) = part

\* C21: the digest of narrateFactsSimple is a header line naming the
\* employee, a line with the period description, a line with the key
\* takeaway, and one bullet line for each of the first min(5, number of
\* facts) facts, in the order of the facts list, and no other bullet line;
\* no request goes to the narration service and the same input gives the
\* same text.
C21_SimpleDigest ==
    \A n \in AccessIdx :
        accessLog[n].fn = "narrateFactsSimple" =>
            LET input == accessLog[n].facts
                lines == SplitLines(accessLog[n].result)
                shown == Min(5, Len(input.facts))
            IN  /\ Len(lines) = 6 + shown
                /\ Contains(lines[1], input.employeeName)
                /\ Contains(lines[2], input.periodDescription)
                /\ lines[3] = ""
                /\ Contains(lines[4], input.keyTakeaway)
                /\ lines[5] = ""
                /\ \A k \in 1..shown : lines[6 + k] = "(bullet) " \o input.facts[k].sentence
                /\ \A k \in 1..6 : ~StartsWith(lines[k], "(bullet) ")
                /\ requests = <<>>
                /\ \A m \in AccessIdx :
                      (accessLog[m].fn = "narrateFactsSimple" /\ accessLog[m].facts = input)
                          => accessLog[m].result = accessLog[n].result

\* The digest of a FactsResult with more than five facts, and the digest of
\* one with fewer
C21_Witness ==
    /\ Len(accessLog) = 1
    /\ accessLog[1].fn = "narrateFactsSimple"
    /\ Len(accessLog[1].facts.facts) = 6
    /\ Len(SplitLines(accessLog[1].result)) = 11

\* The positions of the facts of the given type, in ascending order
RECURSIVE PositionsOfType(_, _, _)
PositionsOfType(facts, type, from) ==
    IF from > Len(facts) THEN <<>>
    ELSE (IF facts[from].type = type THEN <<from>> ELSE <<>>)
         \o PositionsOfType(facts, type, from + 1)

\* C22: the accessors are pure filters: the FactsResult they are called on
\* stays as it was; getKeyFacts(result, n) returns the first min(n, length)
\* facts in order, getFactsByType and getCausalFacts return exactly the facts
\* of the type asked for in their original relative order, and
\* getAllSentences returns the sentence of every fact in order.
C22_PureAccessors ==
    \A n \in AccessIdx :
        LET entry == accessLog[n]
            facts == entry.facts.facts
        IN  /\ factsObject = Some(entry.facts)
            /\ entry.fn = "getKeyFacts" =>
                  /\ Len(entry.result) = Min(entry.arg[1], Len(facts))
                  /\ \A k \in 1..Len(entry.result) : entry.result[k] = facts[k]
            /\ entry.fn \in {"getFactsByType", "getCausalFacts"} =>
                  LET type == IF entry.fn = "getCausalFacts" THEN "causal" ELSE entry.arg[1]
                      at == PositionsOfType(facts, type, 1)
                  IN  /\ Len(entry.result) = Len(at)
                      /\ \A k \in 1..Len(at) : entry.result[k] = facts[at[k]]
            /\ entry.fn = "getAllSentences" =>
                  /\ Len(entry.result) = Len(facts)
                  /\ \A k \in 1..Len(facts) : entry.result[k] = facts[k].sentence

\* getKeyFacts cut a list short, and a filter called afterwards on the same
\* object found facts of its type beyond the cut
C22_Witness ==
    /\ Len(accessLog) = 2
    /\ accessLog[1].fn = "getKeyFacts"
    /\ Len(accessLog[1].result) < Len(accessLog[1].facts.facts)
    /\ accessLog[2].fn = "getCausalFacts"
    /\ Len(accessLog[2].result) = 2
    /\ accessLog[2].result[1] # accessLog[2].facts.facts[1]
    /\ accessLog[2].result[2] = accessLog[2].facts.facts[Len(accessLog[2].facts.facts)]

(***************************************************************************)
(* Further properties of the diff engine (under SpecDiff)                  *)
(***************************************************************************)
CodesOf(m) == {m[k].code : k \in 1..Len(m)}

\* The amount of the line of the given code, 0 for an absent line
AmountIn(m, code) ==
    IF code \in CodesOf(m) THEN (CHOOSE line \in {m[k] : k \in 1..Len(m)} : line.code = code).amount
    ELSE 0

RecordsOf(category, code) ==
    {i \in ChangeIdx : Changes[i].category = category /\ Changes[i].code = code}

\* C23: for each of the four line-item categories and each code of the
\* union of the two maps' keys there is exactly one change record when the
\* code is on one side only or the two amounts differ, and none when the code
\* is on both sides with equal amounts; an absent side counts as 0; the
\* direction is added for a code only in current, removed for a code only in
\* previous, else increase or decrease by the sign of newValue - oldValue.
C23_LineItemRecords ==
    IsSome(comparison) =>
        \A cat \in LineCategories :
            LET old == LineMap(previous, cat)
                new == LineMap(current, cat)
            IN  /\ \A i \in ChangeIdx :
                      Changes[i].category = cat => Changes[i].code \in CodesOf(old) \cup CodesOf(new)
                /\ \A code \in CodesOf(old) \cup CodesOf(new) :
                      LET onlyNew == code \notin CodesOf(old)
                          onlyOld == code \notin CodesOf(new)
                          was == AmountIn(old, code)
                          is == AmountIn(new, code)
                      IN  IF onlyNew \/ onlyOld \/ was # is
                          THEN /\ Cardinality(RecordsOf(cat, code)) = 1
                               /\ \A i \in RecordsOf(cat, code) :
                                     /\ Changes[i].oldValue = was
                                     /\ Changes[i].newValue = is
                                     /\ Changes[i].direction =
                                           IF onlyNew THEN "added"
                                           ELSE IF onlyOld THEN "removed"
                                           ELSE IF is - was > 0 THEN "increase"
                                           ELSE "decrease"
                          ELSE RecordsOf(cat, code) = {}

\* One comparison with a suppressed line (equal amounts on both sides), a
\* changed, an added and a removed line, in four different categories
C23_Witness ==
    /\ IsSome(comparison)
    /\ AmountIn(previous.earnings, "TRAVEL") = 40
    /\ AmountIn(current.earnings, "TRAVEL") = 40
    /\ "OTIME1_5" \in CodesOf(current.earnings) \ CodesOf(previous.earnings)
    /\ AmountIn(previous.deductions, "PAYE") = 140
    /\ AmountIn(current.deductions, "PAYE") = 40
    /\ "TRAVEL" \in CodesOf(current.fringeBenefits) \ CodesOf(previous.fringeBenefits)
    /\ "PENSION" \in CodesOf(previous.companyContributions) \ CodesOf(current.companyContributions)

(***************************************************************************)
(* SpecOvertime: comparePayslips applied to payslips that carry the line   *)
(* items behind every key amount                                           *)
(***************************************************************************)
\* Two salary grades (SALARY, PAYE and UIF move together), the two overtime
\* lines with two amounts each, a travel allowance and a commission
OvertimePayslips ==
    { normalizePayslip(
        RawPayslip(1, 2012, 6, 1000 * grade,
                   EarningLineOpt("SALARY", Some(900 + 100 * grade))
                       \o EarningLineOpt("OTIME1_5", ot15) \o EarningLineOpt("OTIME2_0", ot20)
                       \o EarningLineOpt("TRAVEL", travel) \o EarningLineOpt("COMM", comm),
                   DeductionLineOpt("PAYE", Some(100 * grade - 60))
                       \o DeductionLineOpt("UIF", Some(9 + grade)),
                   <<>>, <<>>)) :
        grade \in {1, 2},
        ot15 \in OptionalOf({40, 140}),
        ot20 \in OptionalOf({40, 140}),
        travel \in OptionalOf({40}),
        comm \in OptionalOf({40}) }

InitOvertime ==
    /\ previous \in OvertimePayslips
    /\ current \in OvertimePayslips
    /\ comparison = None
    /\ factsResult = None
    /\ UnusedPipeline /\ UnusedImportance /\ UnusedNormalize /\ UnusedPairing
    /\ UnusedRepeat /\ UnusedAccess /\ UnusedLocale

SpecOvertime == InitOvertime /\ [][NextDiff]_vars

KeyAmountRecords == {i \in ChangeIdx : Changes[i].category = "key_amount"}

\* The combined amount of the two overtime earnings of a payslip
CombinedOvertime(ps) == AmountIn(ps.earnings, "OTIME1_5") + AmountIn(ps.earnings, "OTIME2_0")

\* C24: the only change record of category key_amount that appears has code
\* overtime, and it appears exactly when the combined amount of the
\* OTIME1_5 and OTIME2_0 earnings differs between the two payslips.
C24_OnlyOvertimeKeyAmount ==
    IsSome(comparison) =>
        /\ \A i \in KeyAmountRecords : Changes[i].code = "overtime"
        /\ Cardinality(KeyAmountRecords)
              = IF CombinedOvertime(previous) # CombinedOvertime(current) THEN 1 ELSE 0
        /\ \A i \in KeyAmountRecords :
              Changes[i].delta = CombinedOvertime(current) - CombinedOvertime(previous)

\* Salary, PAYE, UIF, travel and commission all differ and both overtime
\* lines differ, with the same combined amount: no key_amount record
C24_Witness ==
    /\ IsSome(comparison)
    /\ previous.keyAmounts.basicSalary # current.keyAmounts.basicSalary
    /\ previous.keyAmounts.paye # current.keyAmounts.paye
    /\ previous.keyAmounts.uif # current.keyAmounts.uif
    /\ previous.keyAmounts.travel # current.keyAmounts.travel
    /\ previous.keyAmounts.commission # current.keyAmounts.commission
    /\ AmountIn(previous.earnings, "OTIME1_5") = 40
    /\ AmountIn(current.earnings, "OTIME1_5") = 140
    /\ AmountIn(previous.earnings, "OTIME2_0") = 140
    /\ AmountIn(current.earnings, "OTIME2_0") = 40
    /\ KeyAmountRecords = {}

(***************************************************************************)
(* Properties of the summary (under SpecDiff)                              *)
(***************************************************************************)
WithDirection(direction) == SelectSeq(Changes, LAMBDA c : c.direction = direction)

\* C25: summary.totalChanges is the length of changes, summary.increases,
\* decreases, added and removed are the numbers of records of that
\* direction, and summary.netPayDelta is current.totals.netPay -
\* previous.totals.netPay, with or without a netPay record in changes.
C25_Summary ==
    IsSome(comparison) =>
        LET summary == comparison[1].summary
        IN  /\ summary.totalChanges = Len(Changes)
            /\ summary.increases = Len(WithDirection("increase"))
            /\ summary.decreases = Len(WithDirection("decrease"))
            /\ summary.added = Len(WithDirection("added"))
            /\ summary.removed = Len(WithDirection("removed"))
            /\ summary.netPayDelta = current.totals.netPay - previous.totals.netPay

\* Records of all four directions and no netPay record
C25_Witness ==
    /\ IsSome(comparison)
    /\ \A d \in {"increase", "decrease", "added", "removed"} : WithDirection(d) # <<>>
    /\ \A i \in ChangeIdx : Changes[i].code # "netPay"
    /\ current.totals.netPay = 100

\* C26: no change record has direction unchanged, so the four counts of
\* the summary add up to totalChanges.
C26_NoUnchangedRecord ==
    IsSome(comparison) =>
        LET summary == comparison[1].summary
        IN  /\ \A i \in ChangeIdx : Changes[i].direction # "unchanged"
            /\ summary.increases + summary.decreases + summary.added + summary.removed
                  = summary.totalChanges

\* Changes were found while an aggregate and a line item are equal and not
\* zero on both sides
C26_Witness ==
    /\ IsSome(comparison)
    /\ Changes # <<>>
    /\ previous.totals.netPay = current.totals.netPay
    /\ previous.totals.netPay # 0
    /\ AmountIn(previous.deductions, "PAYE") = 140
    /\ AmountIn(current.deductions, "PAYE") = 140
    /\ previous.totals.grossEarnings # current.totals.grossEarnings

(***************************************************************************)
(* Further properties of the facts generator (under SpecFacts)             *)
(***************************************************************************)
\* C27: within one FactsResult the fact ids are pairwise distinct, the ids
\* of the causal facts included, also when one line code has change records
\* in more than one category.
C27_DistinctFactIds ==
    IsSome(factsResult) =>
        \A i, j \in FactIdx : Facts[i].id = Facts[j].id => i = j

(***************************************************************************)
(* SpecCausal: comparePayslips and generateFacts on payslips whose PAYE    *)
(* deduction may be absent                                                 *)
(***************************************************************************)
CausalPayslips(month) ==
    { normalizePayslip(
        RawPayslip(50 + month, 2012, month, netPay,
                   EarningLineOpt("SALARY", Some(salary)),
                   DeductionLineOpt("PAYE", paye),
                   <<>>, <<>>)) :
        netPay \in {19000, 18300},
        salary \in {25000, 26000},
        paye \in OptionalOf({5000, 5200}) }

InitCausal ==
    /\ previous \in CausalPayslips(5)
    /\ current \in CausalPayslips(6)
    /\ comparison = None
    /\ factsResult = None
    /\ icu \in IcuBuilds
    /\ UnusedPipeline /\ UnusedImportance /\ UnusedNormalize /\ UnusedPairing
    /\ UnusedRepeat /\ UnusedAccess

SpecCausal == InitCausal /\ [][NextFacts]_vars

ChangeWithId(id) == Changes[CHOOSE k \in ChangeIdx : Changes[k].id = id]

\* The sentence says `word` only if the delta of the record has that sign
SaysOnlyIf(sentence, word, holds) == Contains(sentence, word) => holds

\* C28: a causal sentence describes its cause or its effect as an increase
\* only when the delta of that change record is above 0 and as a decrease
\* only when it is below 0, also when the record's direction is added or
\* removed.
C28_CausalDirectionWords ==
    IsSome(factsResult) =>
        \A i \in CausalFactIdx :
            LET cause == ChangeWithId(Facts[i].relatedChangeIds[1][1])
                effect == ChangeWithId(Facts[i].relatedChangeIds[1][2])
                said == Facts[i].sentence
            IN  /\ SaysOnlyIf(said, "The increase in PAYE", cause.delta > 0)
                /\ SaysOnlyIf(said, "The decrease in PAYE", cause.delta < 0)
                /\ SaysOnlyIf(said, "taxable earnings increased", cause.delta > 0)
                /\ SaysOnlyIf(said, "taxable earnings decreased", cause.delta < 0)
                /\ SaysOnlyIf(said, "Basic Salary increased", cause.delta > 0)
                /\ SaysOnlyIf(said, "Basic Salary decreased", cause.delta < 0)
                /\ SaysOnlyIf(said, "Your PAYE tax increased", effect.delta > 0)
                /\ SaysOnlyIf(said, "Your PAYE tax decreased", effect.delta < 0)
                /\ SaysOnlyIf(said, "PAYE tax also increased", effect.delta > 0)
                /\ SaysOnlyIf(said, "PAYE tax also decreased", effect.delta < 0)

(***************************************************************************)
(* The fallback key takeaway (under SpecFacts)                             *)
(***************************************************************************)
HasFallbackTakeaway == factsResult[1].keyTakeaway = "No significant changes this month."

EarlierPeriod(a, b) == a.year < b.year \/ (a.year = b.year /\ a.month < b.month)

\* C30: when getPayslipPairForComparison returns a pair, the period of
\* previous is strictly earlier than the period of current, also when the
\* list (of different payslips) holds more than one primary payslip for the
\* same year and month.
C30_StrictlyEarlier ==
    (/\ IsSome(pairResult) /\ IsSome(pairResult[1])
     /\ \A i, j \in 1..Len(payslipList) :
           payslipList[i].payslipID = payslipList[j].payslipID => i = j) =>
        EarlierPeriod(pairResult[1][1][1].period, pairResult[1][1][2].period)

====
